---- MODULE Spec2Model ----
(***************************************************************************)
(* Model of the Lua analyzer of PZLuaStubGen (src/analyzer): the scope    *)
(* walk of one file (Analyzer.processFile over LuaBlock / LuaFile) and     *)
(* the two-pass pipeline (resolveDependencies, resolveTypes).              *)
(*                                                                         *)
(* Strings are sequences of one-character strings, so that the path and    *)
(* require-name conversions are computed as the code computes them.        *)
(* JS Sets and object key lists are sequences without duplicates, in       *)
(* insertion order.  Identifier and file names range over ordinary names:  *)
(* none is a property name of Object.prototype.                            *)
(***************************************************************************)
EXTENDS Integers, Sequences, FiniteSets, TLC

\* ------------------------------------------------------------------ bounds
MaxFiles == 3
MaxDeque == 8
MaxRuns == 2
MaxStmts == 2

\* ----------------------------------------------------------------- helpers
Range(s) == { s[i] : i \in 1..Len(s) }

\* JS Set.prototype.add on an insertion-ordered set
SetAdd(s, x) == IF x \in Range(s) THEN s ELSE Append(s, x)

\* JS Set.prototype.delete
SetDelete(s, x) == SelectSeq(s, LAMBDA y : y # x)

RECURSIVE SetAddAll(_, _)
SetAddAll(s, xs) ==
    IF xs = <<>> THEN s ELSE SetAddAll(SetAdd(s, Head(xs)), Tail(xs))

\* ----------------------------------------------------------------- strings
\* UTF-16 code unit of the characters the model uses
CharCode(c) ==
    CASE c = "." -> 46
      [] c = "/" -> 47
      [] c = "B" -> 66
      [] c = "\\" -> 92
      [] c = "a" -> 97
      [] c = "b" -> 98
      [] c = "d" -> 100
      [] c = "e" -> 101
      [] c = "l" -> 108
      [] c = "u" -> 117
      [] OTHER -> 0

\* String.prototype.toLocaleUpperCase, on code units
UpperCode(n) == IF n >= 97 /\ n <= 122 THEN n - 32 ELSE n

ToUpperCodes(s) == [i \in 1..Len(s) |-> UpperCode(CharCode(s[i]))]

\* the JS comparison s < t of two strings given as code-unit sequences
RECURSIVE CodesLess(_, _)
CodesLess(s, t) ==
    IF t = <<>> THEN FALSE
    ELSE IF s = <<>> THEN TRUE
    ELSE IF Head(s) # Head(t) THEN Head(s) < Head(t)
    ELSE CodesLess(Tail(s), Tail(t))

EndsWith(s, suffix) ==
    /\ Len(s) >= Len(suffix)
    /\ SubSeq(s, Len(s) - Len(suffix) + 1, Len(s)) = suffix

\* String.prototype.indexOf('/'), 1-based; 0 when absent
IndexOfSlash(s) ==
    IF \E i \in 1..Len(s) : s[i] = "/"
    THEN CHOOSE i \in 1..Len(s) : s[i] = "/" /\ \A j \in 1..(i - 1) : s[j] # "/"
    ELSE 0

DotLua == <<".", "l", "u", "a">>

\* Analyzer.getFileIdentifier
getFileIdentifier(name) ==
    LET stripped == IF EndsWith(name, DotLua)
                    THEN SubSeq(name, 1, Len(name) - 4)
                    ELSE name
    IN  [i \in 1..Len(stripped) |->
            IF stripped[i] \in {"\\", "."} THEN "/" ELSE stripped[i]]

\* --------------------------------------------------------------- AST nodes
\* The luaparse node kinds the analyzer looks at.  NoNode stands for an
\* absent optional node (undefined / null).
NoNode == [type |-> "None"]
Ident(n) == [type |-> "Identifier", name |-> n]
Num == [type |-> "NumericLiteral"]
Vararg == [type |-> "VarargLiteral"]
\* a string literal as luaparse gives it: raw keeps the quotes
StrRaw(s) == [type |-> "StringLiteral", hasValue |-> FALSE, value |-> <<>>,
              raw |-> <<"\"">> \o s \o <<"\"">>]
StrVal(s) == [type |-> "StringLiteral", hasValue |-> TRUE, value |-> s,
              raw |-> <<"\"">> \o s \o <<"\"">>]
Member(b, n) == [type |-> "MemberExpression", base |-> b, field |-> n]
Index(b, i) == [type |-> "IndexExpression", base |-> b, index |-> i]
Call(b, args) == [type |-> "CallExpression", base |-> b, arguments |-> args]
StringCall(b, a) == [type |-> "StringCallExpression", base |-> b, argument |-> a]
TableCall(b, a) == [type |-> "TableCallExpression", base |-> b, targ |-> a]
TableKey(k, v) == [type |-> "TableKey", key |-> k, value |-> v]
TableValue(v) == [type |-> "TableValue", value |-> v]
Table(fs) == [type |-> "TableConstructorExpression", fields |-> fs]
Unary(a) == [type |-> "UnaryExpression", argument |-> a]
Binary(l, r) == [type |-> "BinaryExpression", left |-> l, right |-> r]
Logical(l, r) == [type |-> "LogicalExpression", left |-> l, right |-> r]
Func(id, loc, ps, body) ==
    [type |-> "FunctionDeclaration", identifier |-> id, isLocal |-> loc,
     parameters |-> ps, body |-> body]

Local(vs, init) == [type |-> "LocalStatement", variables |-> vs, init |-> init]
Assign(vs, init) == [type |-> "AssignmentStatement", variables |-> vs, init |-> init]
CallStmt(e) == [type |-> "CallStatement", expression |-> e]
Return(args) == [type |-> "ReturnStatement", arguments |-> args]
IfClause(c, body) == [type |-> "IfClause", condition |-> c, body |-> body]
ElseifClause(c, body) == [type |-> "ElseifClause", condition |-> c, body |-> body]
ElseClause(body) == [type |-> "ElseClause", body |-> body]
If(clauses) == [type |-> "IfStatement", clauses |-> clauses]
Do(body) == [type |-> "DoStatement", body |-> body]
While(c, body) == [type |-> "WhileStatement", condition |-> c, body |-> body]
Repeat(c, body) == [type |-> "RepeatStatement", condition |-> c, body |-> body]
ForNumeric(v, s, e, st, body) ==
    [type |-> "ForNumericStatement", variable |-> v, start |-> s, end |-> e,
     step |-> st, body |-> body]
ForGeneric(vs, its, body) ==
    [type |-> "ForGenericStatement", variables |-> vs, iterators |-> its,
     body |-> body]
Chunk(body) == [type |-> "Chunk", body |-> body]

\* ------------------------------------------------------- LuaBlock / LuaFile
\* A walk state w is the heap of one processFile call: the blocks made so far
\* (block 1 is the LuaFile), the assignment records, Analyzer.stack, and the
\* three sets of the LuaFile.
\*   block      = [node, parent (0: none), children, locals, elements, returns]
\*   locals     = name -> LuaLocal.assignments (indices into w.asg)
\*   assignment = [assignTypes, lhs, rhs]
DepPass == "dependency-resolution"
TypePass == "type-resolution"

EmptyLocals == [k \in {} |-> <<>>]

LocalsPut(l, n, h) == [k \in DOMAIN l \cup {n} |-> IF k = n THEN h ELSE l[k]]

NoLocal == [found |-> FALSE, block |-> 0]

\* LuaBlock.getLocal: the result names the LuaLocal object by its owner
getLocalMutOuter(w, b, name) ==
    LET binders == { a \in 1..Len(w.blocks) : name \in DOMAIN w.blocks[a].locals }
        RECURSIVE up(_, _)
        up(a, best) ==
            IF a = 0 THEN best
            ELSE up(w.blocks[a].parent,
                    IF a \in binders THEN [found |-> TRUE, block |-> a] ELSE best)
    IN  up(b, NoLocal)

RECURSIVE getLocal(_, _, _)
getLocal(w, b, name) ==
    IF b = 0 THEN NoLocal
    ELSE IF name \in DOMAIN w.blocks[b].locals
         THEN [found |-> TRUE, block |-> b]
         ELSE getLocal(w, w.blocks[b].parent, name)

\* LuaBlock.getTopAncestor
getTopAncestorMutSelf(w, b) == b

RECURSIVE getTopAncestor(_, _)
getTopAncestor(w, b) ==
    IF w.blocks[b].parent = 0 THEN b ELSE getTopAncestor(w, w.blocks[b].parent)

\* LuaFile.addFileDependency
addFileDependency(w, name) ==
    IF w.pass = DepPass
    THEN [w EXCEPT !.fileDependencies = SetAdd(@, name)]
    ELSE w

addGlobalDependencyMutAnyPass(w, name) ==
    [w EXCEPT !.globalDependencies = SetAdd(@, name)]

\* LuaFile.addGlobalDependency
addGlobalDependency(w, name) ==
    IF w.pass = DepPass
    THEN [w EXCEPT !.globalDependencies = SetAdd(@, name)]
    ELSE w

\* LuaFile.addGlobalSet
addGlobalSet(w, name) ==
    IF w.pass = DepPass
    THEN [w EXCEPT !.globalsSet = SetAdd(@, name)]
    ELSE w

addChildMutFront(w, parent, child) ==
    [w EXCEPT !.blocks[child].parent = parent,
              !.blocks[parent].children = Append(@, child),
              !.blocks[parent].elements =
                  <<[type |-> "block", block |-> child]>> \o @]

\* LuaBlock.addChild
addChild(w, parent, child) ==
    [w EXCEPT !.blocks[child].parent = parent,
              !.blocks[parent].children = Append(@, child),
              !.blocks[parent].elements =
                  Append(@, [type |-> "block", block |-> child])]

RECURSIVE bindAll(_, _, _)
bindAll(l, idents, h) ==
    IF idents = <<>> THEN l
    ELSE bindAll(LocalsPut(l, Head(idents).name, h), Tail(idents), h)

\* LuaBlock.addBlockLocals
addBlockLocals(w, b, expressions, rhs, type, addSelf) ==
    LET expr == (IF addSelf THEN <<Ident("self")>> ELSE <<>>)
                \o SelectSeq(expressions, LAMBDA p : p.type # "VarargLiteral")
        assignment == [assignTypes |-> [i \in 1..Len(expr) |-> type],
                       lhs |-> expr, rhs |-> rhs]
        k == Len(w.asg) + 1
    IN  [w EXCEPT !.asg = Append(@, assignment),
                  !.blocks[b].locals = bindAll(@, expr, <<k>>),
                  !.blocks[b].elements =
                      Append(@, [type |-> "assignment", asg |-> k])]

\* LuaBlock.addLocalAssignment
addLocalAssignment(w, b, lhs, rhs, existingLocal) ==
    IF w.pass = DepPass /\ lhs # <<>>
    THEN \* the loop returns inside its first iteration
         [w EXCEPT !.blocks[b].locals = LocalsPut(@, lhs[1].name, <<>>)]
    ELSE
    LET k == Len(w.asg) + 1
        reassign == existingLocal.found /\ Len(lhs) = 1 /\ Len(rhs) = 1
        assignment ==
            [assignTypes |-> IF reassign THEN <<"local-reassign">>
                             ELSE [i \in 1..Len(lhs) |-> "local"],
             lhs |-> lhs, rhs |-> rhs]
        w1 == [w EXCEPT !.asg = Append(@, assignment)]
        w2 == IF reassign
              THEN [w1 EXCEPT !.blocks[existingLocal.block].locals[lhs[1].name] =
                                  Append(@, k)]
              ELSE [w1 EXCEPT !.blocks[b].locals = bindAll(@, lhs, <<k>>)]
    IN  [w2 EXCEPT !.blocks[b].elements =
                       Append(@, [type |-> "assignment", asg |-> k])]

\* one target of LuaBlock.addAssignment: st = [w, types]
addAssignmentTarget(st, b, k, left) ==
    IF left.type # "Identifier"
    THEN [st EXCEPT !.types = Append(@, "set-field")]
    ELSE LET local == getLocal(st.w, b, left.name)
         IN  IF local.found
             THEN [w |-> IF st.w.pass # DepPass
                         THEN [st.w EXCEPT
                                 !.blocks[local.block].locals[left.name] =
                                     Append(@, k)]
                         ELSE st.w,
                   types |-> Append(st.types, "local-reassign")]
             ELSE [w |-> IF getTopAncestor(st.w, b) = 1
                         THEN addGlobalSet(st.w, left.name)
                         ELSE st.w,
                   types |-> Append(st.types, "global")]

RECURSIVE addAssignmentTargets(_, _, _, _)
addAssignmentTargets(st, b, k, lhs) ==
    IF lhs = <<>> THEN st
    ELSE addAssignmentTargets(addAssignmentTarget(st, b, k, Head(lhs)),
                              b, k, Tail(lhs))

\* LuaBlock.addAssignment
addAssignment(w, b, lhs, rhs) ==
    LET k == Len(w.asg) + 1
        st == addAssignmentTargets([w |-> w, types |-> <<>>], b, k, lhs)
        assignment == [assignTypes |-> st.types, lhs |-> lhs, rhs |-> rhs]
    IN  IF w.pass # DepPass
        THEN [st.w EXCEPT !.asg = Append(@, assignment),
                          !.blocks[b].elements =
                              Append(@, [type |-> "assignment", asg |-> k])]
        ELSE st.w

\* LuaBlock.addCall
addCall(w, b, expression) ==
    IF w.pass = DepPass THEN w
    ELSE [w EXCEPT !.blocks[b].elements =
                       Append(@, [type |-> "call",
                                  expression |-> expression.base,
                                  arguments |-> expression.arguments])]

\* LuaBlock.addReturn
addReturn(w, b, statement) ==
    IF w.pass = DepPass THEN w
    ELSE [w EXCEPT !.blocks[b].returns = Append(@, statement)]

\* LuaBlock constructor: the new block is the last of w.blocks
newBlock(w, node, parent) ==
    LET id == Len(w.blocks) + 1
        w0 == [w EXCEPT !.blocks =
                  Append(@, [node |-> node, parent |-> 0, children |-> <<>>,
                             locals |-> EmptyLocals, elements |-> <<>>,
                             returns |-> <<>>])]
        w1 == CASE node.type = "FunctionDeclaration" ->
                     LET wp == addBlockLocals(w0, id, node.parameters, <<>>,
                                   "parameter",
                                   node.identifier.type = "MemberExpression")
                     IN  IF parent # 0 /\ node.isLocal
                            /\ node.identifier.type = "Identifier"
                         THEN addLocalAssignment(wp, parent,
                                  <<node.identifier>>, <<node>>,
                                  getLocal(wp, id, node.identifier.name))
                         ELSE wp
                [] node.type = "ForGenericStatement" ->
                     addBlockLocals(w0, id, node.variables, node.iterators,
                                    "generic-for", FALSE)
                [] node.type = "ForNumericStatement" ->
                     addBlockLocals(w0, id, <<node.variable>>,
                                    <<node.start, node.end, node.step>>,
                                    "numeric-for", FALSE)
                [] OTHER -> w0
    IN  IF parent # 0 THEN addChild(w1, parent, id) ELSE w1

pushBlockMutTwice(w, node, parent) ==
    LET w1 == newBlock(w, node, parent)
    IN  [w1 EXCEPT !.stack = Append(Append(@, Len(w1.blocks)), Len(w1.blocks))]

\* Analyzer.pushBlock
pushBlock(w, node, parent) ==
    LET w1 == newBlock(w, node, parent)
    IN  [w1 EXCEPT !.stack = Append(@, Len(w1.blocks))]

\* ------------------------------------------------- Analyzer: the scope walk
\* Analyzer.addGlobalReference (curFileBlock is the file of the walk)
addGlobalReference(w, ident) == addGlobalDependency(w, ident.name)

\* the argument Analyzer.tryReadRequire looks at
requireArgument(expression) ==
    IF expression.type = "StringCallExpression"
    THEN expression.argument
    ELSE IF Len(expression.arguments) >= 2    \* arguments.at(1)
         THEN expression.arguments[2]
         ELSE NoNode

\* the name Analyzer.tryReadRequire extracts; <<>> when it returns false
requireName(expression) ==
    IF expression.type = "TableCallExpression" THEN <<>>
    ELSE IF expression.base.type # "Identifier" THEN <<>>
    ELSE IF expression.base.name # "require" THEN <<>>
    ELSE LET arg == requireArgument(expression)
         IN  IF arg.type # "StringLiteral" THEN <<>>
             ELSE IF arg.hasValue /\ arg.value # <<>> THEN arg.value
             ELSE IF arg.raw # <<>> THEN SubSeq(arg.raw, 2, Len(arg.raw) - 1)
             ELSE <<>>

\* Analyzer.tryReadRequire
tryReadRequire(w, expression) ==
    LET name == requireName(expression)
    IN  IF name = <<>>
        THEN [ok |-> FALSE, w |-> w]
        ELSE [ok |-> TRUE, w |-> addFileDependency(w, getFileIdentifier(name))]

\* Analyzer.readCallExpression
readCallExpression(w, expression, b) == addCall(w, b, expression)

RECURSIVE readExpression(_, _, _)
RECURSIVE readExpressions(_, _, _)
RECURSIVE readFields(_, _, _)

\* Analyzer.readExpression
readExpression(w, expression, b) ==
    CASE expression.type = "Identifier" ->
           IF ~getLocal(w, b, expression.name).found
           THEN addGlobalReference(w, expression)
           ELSE w
      [] expression.type = "MemberExpression" ->
           readExpression(w, expression.base, b)
      [] expression.type = "IndexExpression" ->
           readExpression(readExpression(w, expression.base, b),
                          expression.index, b)
      [] expression.type = "CallExpression" ->
           LET r == tryReadRequire(w, expression)
           IN  IF r.ok THEN r.w
               ELSE readCallExpression(
                        readExpressions(readExpression(w, expression.base, b),
                                        expression.arguments, b),
                        expression, b)
      [] expression.type = "TableCallExpression" ->
           readExpression(readExpression(w, expression.base, b),
                          expression.targ, b)
      [] expression.type = "StringCallExpression" ->
           LET r == tryReadRequire(w, expression)
           IN  IF r.ok THEN r.w
               ELSE readExpression(readExpression(w, expression.base, b),
                                   expression.argument, b)
      [] expression.type = "TableConstructorExpression" ->
           readFields(w, expression.fields, b)
      [] expression.type = "FunctionDeclaration" ->
           pushBlock(w, expression, b)
      [] expression.type = "UnaryExpression" ->
           readExpression(w, expression.argument, b)
      [] expression.type \in {"BinaryExpression", "LogicalExpression"} ->
           readExpression(readExpression(w, expression.left, b),
                          expression.right, b)
      [] OTHER -> w

\* a loop of readExpression over a list, left to right
readExpressions(w, list, b) ==
    IF list = <<>> THEN w
    ELSE readExpressions(readExpression(w, Head(list), b), Tail(list), b)

\* the TableConstructorExpression loop of readExpression
readFields(w, fields, b) ==
    IF fields = <<>> THEN w
    ELSE LET f == Head(fields)
             w1 == readExpression(w, f.value, b)
             w2 == IF f.type = "TableKey" THEN readExpression(w1, f.key, b)
                   ELSE w1
         IN  readFields(w2, Tail(fields), b)

\* Analyzer.prepareAssignment: [w, lhs, rhs]
prepareAssignment(w, statement, b) ==
    LET n == Len(statement.variables)
        initAt(i) == IF i <= Len(statement.init) THEN statement.init[i]
                     ELSE NoNode
        rhs == [i \in 1..n |-> initAt(i)]
        w1 == readExpressions(w, SelectSeq(rhs, LAMBDA e : e.type # "None"), b)
        bases == [i \in 1..n |-> IF statement.variables[i].type # "Identifier"
                                 THEN statement.variables[i].base ELSE NoNode]
        w2 == readExpressions(w1, SelectSeq(bases, LAMBDA e : e.type # "None"), b)
    IN  [w |-> w2, lhs |-> statement.variables, rhs |-> rhs]

\* Analyzer.readAssignStatement
readAssignStatement(w, statement, b) ==
    LET p == prepareAssignment(w, statement, b)
    IN  addAssignment(p.w, b, p.lhs, p.rhs)

\* Analyzer.readLocalStatement
readLocalStatement(w, statement, b) ==
    LET p == prepareAssignment(w, statement, b)
    IN  addLocalAssignment(p.w, b, p.lhs, p.rhs, NoLocal)

RECURSIVE pushBlocks(_, _, _)
pushBlocks(w, nodes, b) ==
    IF nodes = <<>> THEN w
    ELSE pushBlocks(pushBlock(w, Head(nodes), b), Tail(nodes), b)

readStatementMutLoopScope(w, statement, b) ==
    CASE statement.type = "LocalStatement" ->
           readLocalStatement(w, statement, b)
      [] statement.type = "AssignmentStatement" ->
           readAssignStatement(w, statement, b)
      [] statement.type = "CallStatement" ->
           readExpression(w, statement.expression, b)
      [] statement.type = "ReturnStatement" ->
           addReturn(readExpressions(w, statement.arguments, b), b, statement)
      [] statement.type = "IfStatement" ->
           pushBlocks(w, statement.clauses, b)
      [] statement.type \in {"FunctionDeclaration", "DoStatement",
                             "WhileStatement", "RepeatStatement",
                             "ForNumericStatement"} ->
           pushBlock(w, statement, b)
      [] statement.type = "ForGenericStatement" ->
           LET w1 == pushBlock(w, statement, b)
           IN  readExpressions(w1, statement.iterators, Len(w1.blocks))
      [] OTHER -> w

\* one iteration of the statement loop of Analyzer.processFile
readStatement(w, statement, b) ==
    CASE statement.type = "LocalStatement" ->
           readLocalStatement(w, statement, b)
      [] statement.type = "AssignmentStatement" ->
           readAssignStatement(w, statement, b)
      [] statement.type = "CallStatement" ->
           readExpression(w, statement.expression, b)
      [] statement.type = "ReturnStatement" ->
           addReturn(readExpressions(w, statement.arguments, b), b, statement)
      [] statement.type = "IfStatement" ->
           pushBlocks(w, statement.clauses, b)
      [] statement.type \in {"FunctionDeclaration", "DoStatement",
                             "WhileStatement", "RepeatStatement",
                             "ForNumericStatement"} ->
           pushBlock(w, statement, b)
      [] statement.type = "ForGenericStatement" ->
           pushBlock(readExpressions(w, statement.iterators, b), statement, b)
      [] OTHER -> w

RECURSIVE readBody(_, _, _)
readBody(w, body, b) ==
    IF body = <<>> THEN w
    ELSE readBody(readStatement(w, Head(body), b), Tail(body), b)

\* LuaBlock.getBody
getBody(w, b) == w.blocks[b].node.body

\* one iteration of the while loop of Analyzer.processFile
processBlock(w) ==
    LET b == w.stack[Len(w.stack)]
        w1 == [w EXCEPT !.stack = SubSeq(@, 1, Len(@) - 1)]
    IN  readBody(w1, getBody(w1, b), b)

RECURSIVE processBlocks(_)
processBlocks(w) == IF w.stack = <<>> THEN w ELSE processBlocks(processBlock(w))

\* the LuaFile object: the root block and the three sets
\*   file = [name, subdirectory, node, children, locals, elements, returns,
\*           globalsSet, globalDependencies, fileDependencies]
\* LuaFile constructor
newLuaFile(node, subdirectory, name) ==
    [name |-> name, subdirectory |-> subdirectory, node |-> node,
     children |-> <<>>, locals |-> EmptyLocals, elements |-> <<>>,
     returns |-> <<>>, asg |-> <<>>, blocks |-> <<>>,
     globalsSet |-> <<>>, globalDependencies |-> <<>>,
     fileDependencies |-> <<>>]

\* the heap at the start of Analyzer.processFile: stack = [file]
startWalk(file, pass) ==
    [pass |-> pass,
     blocks |-> <<[node |-> file.node, parent |-> 0,
                   children |-> file.children, locals |-> file.locals,
                   elements |-> file.elements, returns |-> file.returns]>>,
     asg |-> file.asg,
     stack |-> <<1>>,
     globalsSet |-> file.globalsSet,
     globalDependencies |-> file.globalDependencies,
     fileDependencies |-> file.fileDependencies]

\* the LuaFile as the walk leaves it; blocks and asg keep the objects its
\* children and elements point to
endWalk(file, w) ==
    [file EXCEPT !.children = w.blocks[1].children,
                 !.locals = w.blocks[1].locals,
                 !.elements = w.blocks[1].elements,
                 !.returns = w.blocks[1].returns,
                 !.asg = w.asg,
                 !.blocks = w.blocks,
                 !.globalsSet = w.globalsSet,
                 !.globalDependencies = w.globalDependencies,
                 !.fileDependencies = w.fileDependencies]

\* Analyzer.processFile
processFile(file, pass) == endWalk(file, processBlocks(startWalk(file, pass)))

RECURSIVE deleteAll(_, _)
deleteAll(s, xs) ==
    IF xs = <<>> THEN s ELSE deleteAll(SetDelete(s, Head(xs)), Tail(xs))

\* LuaFile.cleanup
cleanup(file) ==
    [file EXCEPT !.globalDependencies = deleteAll(@, file.globalsSet),
                 !.children = <<>>,
                 !.elements = <<>>,
                 !.returns = <<>>,
                 !.locals = EmptyLocals,
                 !.asg = <<>>,
                 !.blocks = <<>>]

\* ---------------------------------------------------- the input directory
\* gameFileDirectories
gameFileDirectories == <<"shared", "server", "client">>

SubdirIndex(g) == CHOOSE i \in 1..3 : gameFileDirectories[i] = g

\* paths of .lua files relative to their group directory
PathA == <<"a", ".", "l", "u", "a">>
PathB == <<"B", ".", "l", "u", "a">>
PathDA == <<"d", "/", "a", ".", "l", "u", "a">>
PathEA == <<"e", "/", "a", ".", "l", "u", "a">>

\* the places a file of the input directory can be at
FileSlots ==
    { [subdir |-> "shared", path |-> PathA],
      [subdir |-> "shared", path |-> PathDA],
      [subdir |-> "server", path |-> PathA],
      [subdir |-> "server", path |-> PathB],
      [subdir |-> "client", path |-> PathEA] }

\* number of directories above the file
Depth(path) == Cardinality({ i \in 1..Len(path) : path[i] = "/" })

\* what the files hold: `require "a"`, `require "B"`, a read of the global
\* G, a write of it, and both a require and a write
SrcEmpty == Chunk(<<>>)
SrcRequire(n) == Chunk(<<CallStmt(StringCall(Ident("require"), StrRaw(n)))>>)
SrcRead == Chunk(<<Local(<<Ident("v")>>, <<Ident("G")>>)>>)
SrcWrite == Chunk(<<Assign(<<Ident("G")>>, <<Num>>)>>)
SrcRequireWrite(n) ==
    Chunk(<<CallStmt(StringCall(Ident("require"), StrRaw(n))),
            Assign(<<Ident("G")>>, <<Num>>)>>)

Sources ==
    { SrcEmpty, SrcRequire(<<"a">>), SrcRequire(<<"B">>), SrcRead, SrcWrite,
      SrcRequireWrite(<<"B">>) }

\* files readFile gives up on: one that cannot be read, one that does not
\* parse, one whose walk throws
SrcUnreadable == [type |-> "Unreadable"]
SrcMalformed == [type |-> "Malformed"]
SrcUnwalkable == [type |-> "Unwalkable"]

FailSources ==
    { SrcUnreadable, SrcMalformed, SrcUnwalkable, SrcRequire(<<"a">>),
      SrcWrite }

\* files with loose dependencies on each other: one reads G and writes H,
\* the other reads H and writes G
SrcReadWrite(r, w) ==
    Chunk(<<Local(<<Ident("v")>>, <<Ident(r)>>), Assign(<<Ident(w)>>, <<Num>>)>>)

LooseSources ==
    { SrcReadWrite("G", "H"), SrcReadWrite("H", "G"), SrcRequireWrite(<<"B">>) }

\* the orders in which readDirectory can come upon the files of a directory
\* tree: group after group, and in one group the files of a directory before
\* those of its subdirectories (which wait on the stack)
DiscoveryOrders ==
    { o \in UNION { [1..n -> FileSlots] : n \in 0..MaxFiles } :
        /\ \A i, j \in 1..Len(o) : i # j => o[i] # o[j]
        /\ \A i \in 1..(Len(o) - 1) :
             \/ SubdirIndex(o[i].subdir) < SubdirIndex(o[i + 1].subdir)
             \/ /\ o[i].subdir = o[i + 1].subdir
                /\ Depth(o[i].path) <= Depth(o[i + 1].path) }

\* ------------------------------------------------------------------- state
VARIABLES
    disk,           \* the .lua files of the input directory, in discovery order
    pc,             \* where the analyzer is
    run,            \* calls of resolveDependencies so far
    pass,           \* Analyzer.pass
    globalSetters,  \* Analyzer.globalSetters: global name -> Set of file names
    fileAliases,    \* Analyzer.fileAliases: partial name -> Set of file names
    files,          \* resolveDependencies: files[subdir], in insertion order
    di,             \* readDirectory: next entry of disk
    looseDeps,      \* resolveDependencies: looseDeps
    analysisOrder,  \* resolveDependencies: analysisOrder
    seen,           \* resolveDependencies: seen
    gi,             \* resolveDependencies: index of subdir in the ordering loop
    keys,           \* resolveDependencies: keys
    deque,          \* resolveDependencies: deque
    result,         \* the LuaFile[] resolveDependencies returned
    ti,             \* resolveTypes: next file
    firstOrder,     \* history: the order the first resolveDependencies returned
    errors,         \* Analyzer.errors
    wfile,          \* the walk of one file: the LuaFile
    wpass,          \* the walk of one file: Analyzer.pass
    wpc,            \* the walk of one file: where processFile is
    walk            \* the walk of one file: the heap of processFile

wvars == <<wfile, wpass, wpc, walk>>

vars == <<disk, pc, run, pass, globalSetters, fileAliases, files, di, looseDeps,
          analysisOrder, seen, gi, keys, deque, result, ti, firstOrder, errors,
          wfile, wpass, wpc, walk>>

EmptyMap == [k \in {} |-> <<>>]

MapPut(m, k, v) == [x \in DOMAIN m \cup {k} |-> IF x = k THEN v ELSE m[x]]

NoFiles == [g \in Range(gameFileDirectories) |-> <<>>]

\* rec[name] of a LuaFileRecord: the position of the file, 0 when absent
FileIndex(rec, name) ==
    IF \E i \in 1..Len(rec) : rec[i].name = name
    THEN CHOOSE i \in 1..Len(rec) : rec[i].name = name
    ELSE 0

\* fileMap[name] = block
FilePut(rec, file) ==
    IF FileIndex(rec, file.name) = 0 THEN Append(rec, file)
    ELSE [rec EXCEPT ![FileIndex(rec, file.name)] = file]

NoFile == [found |-> FALSE, subdir |-> "", index |-> 0]

\* getFile of resolveDependencies
RECURSIVE getFileFrom(_, _, _)
getFileFrom(fs, name, i) ==
    IF i > Len(gameFileDirectories) THEN NoFile
    ELSE IF FileIndex(fs[gameFileDirectories[i]], name) # 0
         THEN [found |-> TRUE, subdir |-> gameFileDirectories[i],
               index |-> FileIndex(fs[gameFileDirectories[i]], name)]
         ELSE getFileFrom(fs, name, i + 1)

getFile(fs, name) == getFileFrom(fs, name, 1)

\* getDependencyIdentifier of resolveDependencies; <<>> stands for undefined
getDependencyIdentifierMutAlias(fs, aliases, name) ==
    IF name \in DOMAIN aliases /\ aliases[name] # <<>> THEN aliases[name][1]
    ELSE IF getFile(fs, name).found THEN name
    ELSE <<>>

getDependencyIdentifier(fs, aliases, name) ==
    IF getFile(fs, name).found THEN name
    ELSE IF name \in DOMAIN aliases
         THEN IF aliases[name] = <<>> THEN <<>> ELSE aliases[name][1]
         ELSE <<>>

\* ------------------------------------------------------ pass 1: discovery
\* Analyzer.startPass, on the fields [pass, globalSetters, fileAliases]
startPassMutKeepPass(analyzer, p) ==
    [analyzer EXCEPT !.globalSetters = EmptyMap]

startPass(analyzer, p) ==
    [analyzer EXCEPT !.pass = p, !.globalSetters = EmptyMap]

\* the same fields as the Analyzer constructor sets them
newAnalyzer ==
    [pass |-> DepPass, globalSetters |-> EmptyMap, fileAliases |-> EmptyMap]

\* the globalsSet.forEach of Analyzer.readFile
RECURSIVE addGlobalSetters(_, _, _)
addGlobalSetters(setters, globals, name) ==
    IF globals = <<>> THEN setters
    ELSE LET x == Head(globals)
             old == IF x \in DOMAIN setters THEN setters[x] ELSE <<>>
         IN  addGlobalSetters(MapPut(setters, x, SetAdd(old, name)),
                              Tail(globals), name)

\* this.fileAliases[partialName].add(name)
aliasAddMutRecent(aliases, partialName, name) ==
    LET old == IF partialName \in DOMAIN aliases THEN aliases[partialName]
               ELSE <<>>
    IN  MapPut(aliases, partialName,
               IF name \in Range(old) THEN <<name>> \o SetDelete(old, name)
               ELSE Append(old, name))

aliasAdd(aliases, partialName, name) ==
    LET old == IF partialName \in DOMAIN aliases THEN aliases[partialName]
               ELSE <<>>
    IN  MapPut(aliases, partialName, SetAdd(old, name))

addFileAliasesMutWhole(aliases, partialName, name) ==
    aliasAdd(aliases, partialName, name)

\* the alias loop of Analyzer.readDirectory
RECURSIVE addFileAliases(_, _, _)
addFileAliases(aliases, partialName, name) ==
    LET slash == IndexOfSlash(partialName)
    IN  IF slash = 0 THEN aliases
        ELSE LET rest == SubSeq(partialName, slash + 1, Len(partialName))
             IN  addFileAliases(aliasAdd(aliases, rest, name), rest, name)

\* what Analyzer.readFile gives up on: "read" when the file cannot be opened
\* or read, "analyze" when ast.parse or the walk throws, "none" otherwise
readError(src) ==
    CASE src.type = "Unreadable" -> "read"
      [] src.type \in {"Malformed", "Unwalkable"} -> "analyze"
      [] OTHER -> "none"

\* this.errors.push of Analyzer.readFile
pushErrorMutNone(errs, kind, e) == errs

pushError(errs, kind, e) ==
    Append(errs, [kind |-> kind, subdir |-> e.subdir, path |-> e.path])

\* Analyzer.readFile, for a file that is read and parsed
readFile(src, subdir, name, p) ==
    cleanup(processFile(newLuaFile(src, subdir, name), p))

\* ------------------------------------------------- pass 1: loose dependencies
\* the globalDependencies.forEach of resolveDependencies
RECURSIVE deriveLooseDeps(_, _, _)
deriveLooseDeps(globals, setters, acc) ==
    IF globals = <<>> THEN acc
    ELSE LET x == Head(globals)
         IN  IF x \notin DOMAIN setters \/ setters[x] = <<>>
             THEN deriveLooseDeps(Tail(globals), setters, acc)
             ELSE deriveLooseDeps(Tail(globals), setters,
                                  SetAdd(acc, setters[x][1]))

RECURSIVE modifyRecord(_, _, _)
modifyRecord(rec, setters, loose) ==
    IF rec = <<>> THEN loose
    ELSE modifyRecord(Tail(rec), setters,
             MapPut(loose, Head(rec).name,
                    deriveLooseDeps(Head(rec).globalDependencies, setters, <<>>)))

\* the "modify dependencies" loop of resolveDependencies: looseDeps
modifyDependencies(fs, setters) ==
    modifyRecord(fs["client"], setters,
        modifyRecord(fs["server"], setters,
            modifyRecord(fs["shared"], setters, EmptyMap)))

\* file.globalDependencies.clear() of the same loop
clearGlobalDependencies(fs) ==
    [g \in DOMAIN fs |->
        [i \in 1..Len(fs[g]) |-> [fs[g][i] EXCEPT !.globalDependencies = <<>>]]]

\* ------------------------------------------------------- pass 1: ordering
\* the comparator of keys.sort
compareKeys(a, b) ==
    IF CodesLess(ToUpperCodes(a), ToUpperCodes(b)) THEN 1 ELSE -1

\* Array.prototype.sort on a short array: insertion of each element in turn
RECURSIVE insertKey(_, _)
insertKey(sorted, x) ==
    IF sorted = <<>> THEN <<x>>
    ELSE IF compareKeys(x, Head(sorted)) < 0 THEN <<x>> \o sorted
         ELSE <<Head(sorted)>> \o insertKey(Tail(sorted), x)

RECURSIVE sortKeysFrom(_, _)
sortKeysFrom(ks, sorted) ==
    IF ks = <<>> THEN sorted
    ELSE sortKeysFrom(Tail(ks), insertKey(sorted, Head(ks)))

\* Object.keys(rec).sort(...)
sortedKeys(rec) == sortKeysFrom([i \in 1..Len(rec) |-> rec[i].name], <<>>)

\* the fileDependencies loop of the ordering loop
pendingHardMutSeen(fs, aliases, order, seenNow, deps) ==
    LET names == [i \in 1..Len(deps) |->
                     getDependencyIdentifier(fs, aliases, deps[i])]
    IN  SelectSeq(names, LAMBDA d : d # <<>> /\ d \notin Range(order)
                                    /\ d \notin Range(seenNow))

pendingHard(fs, aliases, order, seenNow, deps) ==
    LET names == [i \in 1..Len(deps) |->
                     getDependencyIdentifier(fs, aliases, deps[i])]
    IN  SelectSeq(names, LAMBDA d : d # <<>> /\ d \notin Range(order))

\* the looseDeps[key] loop of the ordering loop
pendingLooseMutNoSeen(fs, aliases, order, seenNow, deps) ==
    LET names == [i \in 1..Len(deps) |->
                     getDependencyIdentifier(fs, aliases, deps[i])]
    IN  SelectSeq(names, LAMBDA d : d # <<>> /\ d \notin Range(order))

pendingLoose(fs, aliases, order, seenNow, deps) ==
    LET names == [i \in 1..Len(deps) |->
                     getDependencyIdentifier(fs, aliases, deps[i])]
    IN  SelectSeq(names, LAMBDA d : d # <<>> /\ d \notin Range(seenNow)
                                    /\ d \notin Range(order))

\* keys.pop() and the push of nextKey, when there is one
pushNextKey(dq, ks) ==
    IF ks # <<>> /\ ks[Len(ks)] # <<>> THEN Append(dq, ks[Len(ks)]) ELSE dq

popKey(ks) == IF ks = <<>> THEN ks ELSE SubSeq(ks, 1, Len(ks) - 1)

\* the files resolveDependencies returns, fileDependencies cleared
returnedFiles(fs, order) ==
    [i \in 1..Len(order) |->
        LET f == getFile(fs, order[i])
        IN  [fs[f.subdir][f.index] EXCEPT !.fileDependencies = <<>>]]

\* file.fileDependencies.clear() as seen through the file maps
clearReturned(fs, order) ==
    [g \in DOMAIN fs |->
        [i \in 1..Len(fs[g]) |->
            IF \E k \in 1..Len(order) :
                 LET f == getFile(fs, order[k])
                 IN  f.subdir = g /\ f.index = i
            THEN [fs[g][i] EXCEPT !.fileDependencies = <<>>]
            ELSE fs[g][i]]]

OrderOf(fileList) ==
    [i \in 1..Len(fileList) |->
        [name |-> fileList[i].name, subdirectory |-> fileList[i].subdirectory]]

\* ------------------------------------------------ the walk of a single file
\* the heap when no processFile call is under way
NoWalk ==
    [pass |-> DepPass, blocks |-> <<>>, asg |-> <<>>, stack |-> <<>>,
     globalsSet |-> <<>>, globalDependencies |-> <<>>,
     fileDependencies |-> <<>>]

\* the require name a.b, which normalizes to a/b
NameAB == <<"a", ".", "b">>

\* the statements a file of the walk is made of; x, y, v and self are the
\* names they bind, G and H are bound nowhere
StmtPool ==
    << \* require "a"
       CallStmt(StringCall(Ident("require"), StrRaw(<<"a">>))),
       \* require("a")
       CallStmt(Call(Ident("require"), <<StrRaw(<<"a">>)>>)),
       \* local v = require("a.b")
       Local(<<Ident("v")>>, <<Call(Ident("require"), <<StrVal(NameAB)>>)>>),
       \* local v = require "a.b"
       Local(<<Ident("v")>>, <<StringCall(Ident("require"), StrRaw(NameAB))>>),
       \* local x = G
       Local(<<Ident("x")>>, <<Ident("G")>>),
       \* local x = x
       Local(<<Ident("x")>>, <<Ident("x")>>),
       \* local x, y = 1
       Local(<<Ident("x"), Ident("y")>>, <<Num>>),
       \* local x = 1, H
       Local(<<Ident("x")>>, <<Num, Ident("H")>>),
       \* G = 1
       Assign(<<Ident("G")>>, <<Num>>),
       \* x = y
       Assign(<<Ident("x")>>, <<Ident("y")>>),
       \* G.f = x
       Assign(<<Member(Ident("G"), "f")>>, <<Ident("x")>>),
       \* G(H)
       CallStmt(Call(Ident("G"), <<Ident("H")>>)),
       \* return x
       Return(<<Ident("x")>>),
       \* if G then elseif H then else end
       If(<<IfClause(Ident("G"), <<>>), ElseifClause(Ident("H"), <<>>),
            ElseClause(<<>>)>>),
       \* while H do x = 1 end
       While(Ident("H"), <<Assign(<<Ident("x")>>, <<Num>>)>>),
       \* repeat until G
       Repeat(Ident("G"), <<>>),
       \* do local x = 1; G(x) end
       Do(<<Local(<<Ident("x")>>, <<Num>>),
            CallStmt(Call(Ident("G"), <<Ident("x")>>))>>),
       \* for x = H, 1 do G(x) end
       ForNumeric(Ident("x"), Ident("H"), Num, NoNode,
                  <<CallStmt(Call(Ident("G"), <<Ident("x")>>))>>),
       \* for x in G do return x end
       ForGeneric(<<Ident("x")>>, <<Ident("G")>>, <<Return(<<Ident("x")>>)>>),
       \* function f(x) return x end
       Func(Ident("f"), FALSE, <<Ident("x")>>, <<Return(<<Ident("x")>>)>>),
       \* local function f(x, ...) return y end
       Func(Ident("f"), TRUE, <<Ident("x"), Vararg>>,
            <<Return(<<Ident("y")>>)>>),
       \* function G:m() return self end
       Func(Member(Ident("G"), "m"), FALSE, <<>>,
            <<Return(<<Ident("self")>>)>>),
       \* local y = function(x) return x + y end
       Local(<<Ident("y")>>,
             <<Func(NoNode, FALSE, <<Ident("x")>>,
                    <<Return(<<Binary(Ident("x"), Ident("y"))>>)>>)>>),
       \* function f(x) do local x = 1; return x end end
       Func(Ident("f"), FALSE, <<Ident("x")>>,
            <<Do(<<Local(<<Ident("x")>>, <<Num>>),
                   Return(<<Ident("x")>>)>>)>>),
       \* G { x, [y] = H }
       CallStmt(TableCall(Ident("G"),
                          Table(<<TableValue(Ident("x")),
                                  TableKey(Ident("y"), Ident("H"))>>))),
       \* x = G[y]
       Assign(<<Ident("x")>>, <<Index(Ident("G"), Ident("y"))>>),
       \* y, G, H.f = x
       Assign(<<Ident("y"), Ident("G"), Member(Ident("H"), "f")>>,
              <<Ident("x")>>),
       \* function f(y) do y, G, H.f = x end end
       Func(Ident("f"), FALSE, <<Ident("y")>>,
            <<Do(<<Assign(<<Ident("y"), Ident("G"),
                            Member(Ident("H"), "f")>>,
                          <<Ident("x")>>)>>)>>),
       \* local function f(f) return f end
       Func(Ident("f"), TRUE, <<Ident("f")>>, <<Return(<<Ident("f")>>)>>),
       \* for x, y in y do G(x) end
       ForGeneric(<<Ident("x"), Ident("y")>>, <<Ident("y")>>,
                  <<CallStmt(Call(Ident("G"), <<Ident("x")>>))>>) >>

\* the files of the walk: up to MaxStmts statements of the pool, by position
ProgramShapes == UNION { [1..m -> 1..Len(StmtPool)] : m \in 0..MaxStmts }

ProgramOf(ix) == Chunk([i \in 1..Len(ix) |-> StmtPool[ix[i]]])

\* ----------------------------------------------------------------- actions
Init ==
    /\ \E o \in DiscoveryOrders :
         \E src \in [1..Len(o) -> Sources] :
            disk = [i \in 1..Len(o) |->
                       [subdir |-> o[i].subdir, path |-> o[i].path,
                        src |-> src[i]]]
    /\ pc = "idle"
    /\ run = 0
    /\ pass = newAnalyzer.pass
    /\ globalSetters = newAnalyzer.globalSetters
    /\ fileAliases = newAnalyzer.fileAliases
    /\ files = NoFiles
    /\ di = 1
    /\ looseDeps = EmptyMap
    /\ analysisOrder = <<>>
    /\ seen = <<>>
    /\ gi = 1
    /\ keys = <<>>
    /\ deque = <<>>
    /\ result = <<>>
    /\ ti = 1
    /\ firstOrder = <<>>
    /\ errors = <<>>
    /\ wfile = newLuaFile(SrcEmpty, "shared", <<"a">>)
    /\ wpass = DepPass
    /\ wpc = "off"
    /\ walk = NoWalk

\* resolveDependencies is called: startPass and the empty file maps
ResolveDependencies ==
    /\ UNCHANGED wvars
    /\ UNCHANGED errors
    /\ pc \in {"idle", "returned"}
    /\ run < MaxRuns
    /\ LET a == startPass([pass |-> pass, globalSetters |-> globalSetters,
                           fileAliases |-> fileAliases], DepPass)
       IN  /\ pass' = a.pass
           /\ globalSetters' = a.globalSetters
           /\ fileAliases' = a.fileAliases
    /\ run' = run + 1
    /\ pc' = "read"
    /\ files' = NoFiles
    /\ di' = 1
    /\ looseDeps' = EmptyMap
    /\ analysisOrder' = <<>>
    /\ seen' = <<>>
    /\ gi' = 1
    /\ keys' = <<>>
    /\ deque' = <<>>
    /\ UNCHANGED <<disk, result, ti, firstOrder>>

\* a second Analyzer is constructed for the next run
NewAnalyzer ==
    /\ UNCHANGED wvars
    /\ errors' = <<>>
    /\ pc = "returned"
    /\ run < MaxRuns
    /\ pc' = "idle"
    /\ pass' = newAnalyzer.pass
    /\ globalSetters' = newAnalyzer.globalSetters
    /\ fileAliases' = newAnalyzer.fileAliases
    /\ UNCHANGED <<disk, run, files, di, looseDeps, analysisOrder, seen, gi,
                   keys, deque, result, ti, firstOrder>>

\* readDirectory comes upon one .lua file: readFile, fileMap, aliases; a
\* file that readFile gives up on leaves a diagnostic and nothing else
ReadFile ==
    /\ UNCHANGED wvars
    /\ pc = "read"
    /\ di <= Len(disk)
    /\ LET e == disk[di]
           name == getFileIdentifier(e.path)
       IN  IF readError(e.src) # "none"
           THEN /\ errors' = pushError(errors, readError(e.src), e)
                /\ UNCHANGED <<globalSetters, files, fileAliases>>
           ELSE LET block == readFile(e.src, e.subdir, name, pass)
                IN  /\ globalSetters' =
                          addGlobalSetters(globalSetters, block.globalsSet, name)
                    /\ files' = [files EXCEPT ![e.subdir] = FilePut(@, block)]
                    /\ fileAliases' = addFileAliases(fileAliases, name, name)
                    /\ UNCHANGED errors
    /\ di' = di + 1
    /\ UNCHANGED <<disk, pc, run, pass, looseDeps, analysisOrder, seen, gi,
                   keys, deque, result, ti, firstOrder>>

\* all directories are read: the "modify dependencies" loop
ModifyDependencies ==
    /\ UNCHANGED wvars
    /\ UNCHANGED errors
    /\ pc = "read"
    /\ di > Len(disk)
    /\ looseDeps' = modifyDependencies(files, globalSetters)
    /\ files' = clearGlobalDependencies(files)
    /\ analysisOrder' = <<>>
    /\ seen' = <<>>
    /\ gi' = 1
    /\ pc' = "group"
    /\ UNCHANGED <<disk, run, pass, globalSetters, fileAliases, di, keys,
                   deque, result, ti, firstOrder>>

\* the ordering loop turns to the next subdir: keys and the first of deque
StartGroup ==
    /\ UNCHANGED wvars
    /\ UNCHANGED errors
    /\ pc = "group"
    /\ gi <= Len(gameFileDirectories)
    /\ LET ks == sortedKeys(files[gameFileDirectories[gi]])
       IN  IF ks = <<>>
           THEN /\ gi' = gi + 1
                /\ UNCHANGED <<pc, keys, deque>>
           ELSE /\ keys' = popKey(ks)
                /\ deque' = <<ks[Len(ks)]>>
                /\ pc' = "loop"
                /\ UNCHANGED gi
    /\ UNCHANGED <<disk, run, pass, globalSetters, fileAliases, files, di,
                   looseDeps, analysisOrder, seen, result, ti, firstOrder>>

\* one iteration of `while (deque.length > 0)`
OrderStep ==
    /\ UNCHANGED wvars
    /\ UNCHANGED errors
    /\ pc = "loop"
    /\ deque # <<>>
    /\ LET key == Head(deque)
           rest == Tail(deque)
           seenNow == SetAdd(seen, key)
           f == IF key \in Range(analysisOrder) THEN NoFile
                ELSE getFile(files, key)
           file == files[f.subdir][f.index]
           depsToAdd ==
               pendingHard(files, fileAliases, analysisOrder, seenNow,
                           file.fileDependencies)
               \o pendingLoose(files, fileAliases, analysisOrder, seenNow,
                               looseDeps[key])
           next == IF ~f.found
                   THEN [deque |-> pushNextKey(rest, keys), keys |-> popKey(keys),
                         order |-> analysisOrder]
                   ELSE IF depsToAdd # <<>>
                   THEN [deque |-> depsToAdd \o <<key>> \o rest, keys |-> keys,
                         order |-> analysisOrder]
                   ELSE [deque |-> pushNextKey(rest, keys), keys |-> popKey(keys),
                         order |-> SetAdd(analysisOrder, key)]
       IN  IF Len(next.deque) > MaxDeque
           THEN \* the queue outgrows the memory there is
                /\ pc' = "exhausted"
                /\ UNCHANGED <<seen, deque, keys, analysisOrder, gi>>
           ELSE /\ seen' = seenNow
                /\ deque' = next.deque
                /\ keys' = next.keys
                /\ analysisOrder' = next.order
                /\ IF next.deque = <<>>
                   THEN pc' = "group" /\ gi' = gi + 1
                   ELSE UNCHANGED <<pc, gi>>
    /\ UNCHANGED <<disk, run, pass, globalSetters, fileAliases, files, di,
                   looseDeps, result, ti, firstOrder>>

\* the return of resolveDependencies
ReturnDependencies ==
    /\ UNCHANGED wvars
    /\ UNCHANGED errors
    /\ pc = "group"
    /\ gi > Len(gameFileDirectories)
    /\ result' = returnedFiles(files, analysisOrder)
    /\ files' = clearReturned(files, analysisOrder)
    /\ firstOrder' = IF run = 1 THEN OrderOf(result') ELSE firstOrder
    /\ pc' = "returned"
    /\ UNCHANGED <<disk, run, pass, globalSetters, fileAliases, di, looseDeps,
                   analysisOrder, seen, gi, keys, deque, ti>>

\* analyze goes on to resolveTypes: startPass
ResolveTypes ==
    /\ UNCHANGED wvars
    /\ UNCHANGED errors
    /\ pc = "returned"
    /\ LET a == startPass([pass |-> pass, globalSetters |-> globalSetters,
                           fileAliases |-> fileAliases], TypePass)
       IN  /\ pass' = a.pass
           /\ globalSetters' = a.globalSetters
           /\ fileAliases' = a.fileAliases
    /\ ti' = 1
    /\ pc' = "types"
    /\ UNCHANGED <<disk, run, files, di, looseDeps, analysisOrder, seen, gi,
                   keys, deque, result, firstOrder>>

\* one iteration of the loop of resolveTypes: processFile and cleanup
TypeFile ==
    /\ UNCHANGED wvars
    /\ UNCHANGED errors
    /\ pc = "types"
    /\ ti <= Len(result)
    /\ result' = [result EXCEPT ![ti] = cleanup(processFile(@, pass))]
    /\ ti' = ti + 1
    /\ UNCHANGED <<disk, pc, run, pass, globalSetters, fileAliases, files, di,
                   looseDeps, analysisOrder, seen, gi, keys, deque, firstOrder>>

\* the return of resolveTypes
ReturnTypes ==
    /\ UNCHANGED wvars
    /\ UNCHANGED errors
    /\ pc = "types"
    /\ ti > Len(result)
    /\ pc' = "done"
    /\ UNCHANGED <<disk, run, pass, globalSetters, fileAliases, files, di,
                   looseDeps, analysisOrder, seen, gi, keys, deque, result, ti,
                   firstOrder>>

Next ==
    \/ ResolveDependencies
    \/ NewAnalyzer
    \/ ReadFile
    \/ ModifyDependencies
    \/ StartGroup
    \/ OrderStep
    \/ ReturnDependencies
    \/ ResolveTypes
    \/ TypeFile
    \/ ReturnTypes

Spec == Init /\ [][Next]_vars

\* ------------------------------------------- actions of the single-file walk
\* a file is about to be read: readFile constructs its LuaFile
InitWalk ==
    /\ \E ix \in ProgramShapes :
         wfile = newLuaFile(ProgramOf(ix), "shared", <<"a">>)
    /\ wpass = newAnalyzer.pass
    /\ wpc = "ready"
    /\ walk = NoWalk
    /\ disk = <<>>
    /\ pc = "walk"
    /\ run = 0
    /\ pass = newAnalyzer.pass
    /\ globalSetters = newAnalyzer.globalSetters
    /\ fileAliases = newAnalyzer.fileAliases
    /\ files = NoFiles
    /\ di = 1
    /\ looseDeps = EmptyMap
    /\ analysisOrder = <<>>
    /\ seen = <<>>
    /\ gi = 1
    /\ keys = <<>>
    /\ deque = <<>>
    /\ result = <<>>
    /\ ti = 1
    /\ firstOrder = <<>>
    /\ errors = <<>>

\* as Init, with files that cannot be read, parsed or walked among the rest
InitFail ==
    /\ \E o \in DiscoveryOrders :
         \E src \in [1..Len(o) -> FailSources] :
            disk = [i \in 1..Len(o) |->
                       [subdir |-> o[i].subdir, path |-> o[i].path,
                        src |-> src[i]]]
    /\ pc = "idle"
    /\ run = 0
    /\ pass = newAnalyzer.pass
    /\ globalSetters = newAnalyzer.globalSetters
    /\ fileAliases = newAnalyzer.fileAliases
    /\ files = NoFiles
    /\ di = 1
    /\ looseDeps = EmptyMap
    /\ analysisOrder = <<>>
    /\ seen = <<>>
    /\ gi = 1
    /\ keys = <<>>
    /\ deque = <<>>
    /\ result = <<>>
    /\ ti = 1
    /\ firstOrder = <<>>
    /\ errors = <<>>
    /\ wfile = newLuaFile(SrcEmpty, "shared", <<"a">>)
    /\ wpass = DepPass
    /\ wpc = "off"
    /\ walk = NoWalk

SpecFail == InitFail /\ [][Next]_vars

\* as Init, with files that read and write each other's globals
InitLoose ==
    /\ \E o \in DiscoveryOrders :
         \E src \in [1..Len(o) -> LooseSources] :
            disk = [i \in 1..Len(o) |->
                       [subdir |-> o[i].subdir, path |-> o[i].path,
                        src |-> src[i]]]
    /\ pc = "idle"
    /\ run = 0
    /\ pass = newAnalyzer.pass
    /\ globalSetters = newAnalyzer.globalSetters
    /\ fileAliases = newAnalyzer.fileAliases
    /\ files = NoFiles
    /\ di = 1
    /\ looseDeps = EmptyMap
    /\ analysisOrder = <<>>
    /\ seen = <<>>
    /\ gi = 1
    /\ keys = <<>>
    /\ deque = <<>>
    /\ result = <<>>
    /\ ti = 1
    /\ firstOrder = <<>>
    /\ errors = <<>>
    /\ wfile = newLuaFile(SrcEmpty, "shared", <<"a">>)
    /\ wpass = DepPass
    /\ wpc = "off"
    /\ walk = NoWalk

\* the ordering loop is a loop of a sequential program: it goes on while it
\* can
SpecLoose == InitLoose /\ [][Next]_vars /\ WF_vars(OrderStep)

pvars == <<disk, pc, run, pass, globalSetters, fileAliases, files, di,
           looseDeps, analysisOrder, seen, gi, keys, deque, result, ti,
           firstOrder, errors>>

\* processFile begins: curFileBlock and stack = [file]
WalkStart ==
    /\ wpc = "ready"
    /\ walk' = startWalk(wfile, wpass)
    /\ wpc' = "walking"
    /\ UNCHANGED <<wfile, wpass>>
    /\ UNCHANGED pvars

\* one iteration of `while (this.stack.length > 0)`: a block is popped and
\* its body read
WalkBlock ==
    /\ wpc = "walking"
    /\ walk.stack # <<>>
    /\ walk' = processBlock(walk)
    /\ UNCHANGED <<wfile, wpass, wpc>>
    /\ UNCHANGED pvars

\* the stack is empty: processFile returns the file
WalkEnd ==
    /\ wpc = "walking"
    /\ walk.stack = <<>>
    /\ wfile' = endWalk(wfile, walk)
    /\ wpc' = "walked"
    /\ UNCHANGED <<wpass, walk>>
    /\ UNCHANGED pvars

\* file.cleanup(), in readFile as in resolveTypes
WalkCleanup ==
    /\ wpc = "walked"
    /\ wfile' = cleanup(wfile)
    /\ walk' = NoWalk
    /\ wpc' = "cleaned"
    /\ UNCHANGED wpass
    /\ UNCHANGED pvars

\* resolveDependencies clears the file's dependency sets and returns it;
\* resolveTypes starts the second pass on it
WalkResolveTypes ==
    /\ wpc = "cleaned"
    /\ wpass = DepPass
    /\ wfile' = [wfile EXCEPT !.globalDependencies = <<>>,
                              !.fileDependencies = <<>>]
    /\ wpass' = TypePass
    /\ wpc' = "ready"
    /\ UNCHANGED walk
    /\ UNCHANGED pvars

NextWalk ==
    \/ WalkStart
    \/ WalkBlock
    \/ WalkEnd
    \/ WalkCleanup
    \/ WalkResolveTypes

SpecWalk == InitWalk /\ [][NextWalk]_vars

\* files that read a global, write it, or require a file and write it
ReadWriteSources == { SrcRead, SrcWrite, SrcRequireWrite(<<"B">>) }

\* the analyzer at work on a directory of such files, or on the walk of one
\* file
InitAll ==
    \/ Init /\ \A i \in 1..Len(disk) : disk[i].src \in ReadWriteSources
    \/ InitWalk

NextAll == Next \/ NextWalk

SpecAll == InitAll /\ [][NextAll]_vars

\* -------------------------------------------- what the files on disk say
\* Read off the syntax trees, apart from the analyzer's walk.
EntryId(e) == getFileIdentifier(e.path)

Entries == 1..Len(disk)

\* the names a file requires with `require "n"` statements
RequiredNames(src) ==
    { getFileIdentifier(SubSeq(st.expression.argument.raw, 2,
                               Len(st.expression.argument.raw) - 1)) :
        st \in { t \in Range(src.body) :
                   /\ t.type = "CallStatement"
                   /\ t.expression.type = "StringCallExpression"
                   /\ t.expression.base = Ident("require") } }

\* the globals a file assigns at top level
WrittenGlobals(src) ==
    UNION { { v.name : v \in { u \in Range(st.variables) : u.type = "Identifier" } } :
              st \in { t \in Range(src.body) : t.type = "AssignmentStatement" } }

\* the unbound names a file reads in the initializers of its local statements
ReadGlobals(src) ==
    UNION { { v.name : v \in { u \in Range(st.init) : u.type = "Identifier" } } :
              st \in { t \in Range(src.body) : t.type = "LocalStatement" } }

\* where a file of the disk is in the returned list; 0 when it is not there
PosOf(i) ==
    LET hits == { k \in 1..Len(result) :
                    /\ result[k].name = EntryId(disk[i])
                    /\ result[k].subdirectory = disk[i].subdir }
    IN  IF hits = {} THEN 0 ELSE CHOOSE k \in hits : TRUE

\* the file a file identity stands for: that of the first group holding it
FileOfId(id) ==
    LET hits == { i \in Entries : EntryId(disk[i]) = id }
    IN  IF hits = {} THEN 0
        ELSE CHOOSE i \in hits :
               \A j \in hits : SubdirIndex(disk[i].subdir) <= SubdirIndex(disk[j].subdir)

Resolve(n) == getDependencyIdentifier(files, fileAliases, n)

HardEdge(i, j) ==
    \E n \in RequiredNames(disk[i].src) :
        Resolve(n) # <<>> /\ FileOfId(Resolve(n)) = j

\* the first file, in discovery order, that writes the global
CanonicalSetter(g) ==
    LET writers == { i \in Entries : g \in WrittenGlobals(disk[i].src) }
    IN  IF writers = {} THEN 0
        ELSE CHOOSE i \in writers : \A j \in writers : i <= j

LooseEdge(i, j) ==
    \E g \in ReadGlobals(disk[i].src) \ WrittenGlobals(disk[i].src) :
        CanonicalSetter(g) = j

DepEdge(i, j) == HardEdge(i, j) \/ LooseEdge(i, j)

\* a path of one to n edges
RECURSIVE HardReachIn(_, _, _)
HardReachIn(i, j, n) ==
    \/ HardEdge(i, j)
    \/ n > 1 /\ \E k \in Entries : HardEdge(i, k) /\ HardReachIn(k, j, n - 1)

RECURSIVE DepReachIn(_, _, _)
DepReachIn(i, j, n) ==
    \/ DepEdge(i, j)
    \/ n > 1 /\ \E k \in Entries : DepEdge(i, k) /\ DepReachIn(k, j, n - 1)

HardReach(i, j) == HardReachIn(i, j, Len(disk))
DepReach(i, j) == DepReachIn(i, j, Len(disk))

HasHardCycle == \E i \in Entries : HardReach(i, i)

\* no two files of the disk have the same identity
DistinctIds ==
    \A i, j \in Entries : i # j => EntryId(disk[i]) # EntryId(disk[j])

\* ------------------------------------------------------------------ claims
\* C1: when resolveDependencies returns, every parsed file is in the
\* returned list exactly once.
AllFilesOnce ==
    pc = "returned" =>
        \A i \in Entries :
            Cardinality({ k \in 1..Len(result) :
                            /\ result[k].name = EntryId(disk[i])
                            /\ result[k].subdirectory = disk[i].subdir }) = 1

\* C1 without files of the same identity: the order loses and repeats nothing
AllFilesOnceDistinctIds == DistinctIds => AllFilesOnce

\* C2: in the returned list, every file that a file's require resolves to,
\* other than the file itself, stands before that file.
HardDepsFirst ==
    pc = "returned" =>
        \A k \in 1..Len(result) :
            \A n \in RequiredNames(result[k].node) :
                LET d == Resolve(n)
                IN  (d # <<>> /\ d # result[k].name) =>
                        \E j \in 1..(k - 1) : result[j].name = d

\* a returned order that a require changed: the required file is of a later
\* group than the file that requires it
HardDepsFirstWitness ==
    /\ pc = "returned"
    /\ \E k \in 1..Len(result) :
         \E n \in RequiredNames(result[k].node) :
            /\ Resolve(n) # <<>>
            /\ Resolve(n) # result[k].name
            /\ \E j \in 1..(k - 1) :
                 /\ result[j].name = Resolve(n)
                 /\ SubdirIndex(result[j].subdirectory) >
                        SubdirIndex(result[k].subdirectory)

\* C3: with a cycle in the hard-require graph the ordering loop still ends:
\* its queue never outgrows the memory there is.
CycleTerminates == HasHardCycle => pc # "exhausted"

\* without such a cycle the queue stays within the bound
AcyclicWithinBound == (pc = "exhausted") => HasHardCycle

\* C4: a file that reads a global it does not write comes after the
\* canonical setter of that global, when no require links the two and no
\* dependency cycle runs through them.
LooseDepFirst ==
    pc = "returned" =>
        \A a, b \in Entries :
            ( /\ a # b
              /\ PosOf(a) # 0
              /\ LooseEdge(a, b)
              /\ ~HardEdge(a, b) /\ ~HardEdge(b, a)
              /\ ~DepReach(b, a) )
            => (PosOf(b) # 0 /\ PosOf(b) < PosOf(a))

\* C4 without files of the same identity
LooseDepFirstDistinctIds == DistinctIds => LooseDepFirst

\* C5: a second run over the same files returns the order of the first.
SameOrderAgain ==
    (pc = "returned" /\ run = 2) => OrderOf(result) = firstOrder

\* a second run has returned three files, with an alias that two files share
SameOrderAgainWitness ==
    /\ pc = "returned"
    /\ run = 2
    /\ Len(result) >= 3
    /\ \E k \in DOMAIN fileAliases : Len(fileAliases[k]) >= 2
    /\ \E i \in Entries : \E n \in RequiredNames(disk[i].src) :
         ~getFile(files, n).found /\ Resolve(n) # <<>>

\* the identities of the parsed files
Identities == { EntryId(disk[i]) : i \in Entries }

\* id ends with the path suffix n: n after a `/` of id
HasPathSuffix(id, n) ==
    /\ Len(id) > Len(n)
    /\ id[Len(id) - Len(n)] = "/"
    /\ SubSeq(id, Len(id) - Len(n) + 1, Len(id)) = n

SuffixOwners(n) == { i \in Entries : HasPathSuffix(EntryId(disk[i]), n) }

\* the names a require may give
QueryNames ==
    { <<"a">>, <<"B">>, <<"b">>, <<"d", "/", "a">>, <<"e", "/", "a">>,
      <<"/", "a">> }

\* the files of this run are all read and the ordering loop is at a group:
\* the file maps and the alias table stay as they are until the run returns
DiscoveryDone == pc = "group"

\* C7 as claimed: a name that is an identity resolves to it; any other name
\* resolves only if exactly one identity ends with it, and to no file when
\* two or more do.
ResolvesOnlyIfUnique ==
    DiscoveryDone =>
        \A n \in QueryNames :
            /\ n \in Identities => Resolve(n) = n
            /\ n \notin Identities =>
                 LET owners == { EntryId(disk[i]) : i \in SuffixOwners(n) }
                 IN  /\ Resolve(n) # <<>> => owners = {Resolve(n)}
                     /\ Cardinality(owners) >= 2 => Resolve(n) = <<>>

\* C7 as amended: a name that is an identity resolves to it; any other name
\* resolves to the first discovered identity that ends with it, and to no
\* file when none does.
ResolvesToFirstAlias ==
    DiscoveryDone =>
        \A n \in QueryNames :
            /\ n \in Identities => Resolve(n) = n
            /\ n \notin Identities =>
                 IF SuffixOwners(n) = {} THEN Resolve(n) = <<>>
                 ELSE Resolve(n) =
                        EntryId(disk[CHOOSE i \in SuffixOwners(n) :
                                        \A j \in SuffixOwners(n) : i <= j])

\* the files are read, and a file requires a name that is no identity and
\* that two identities end with: it resolves to the first discovered of them
ResolvesToFirstAliasWitness ==
    /\ DiscoveryDone
    /\ \E n \in QueryNames :
         /\ n \notin Identities
         /\ Cardinality(SuffixOwners(n)) >= 2
         /\ \E i \in Entries : n \in RequiredNames(disk[i].src)
         /\ Resolve(n) \in { EntryId(disk[i]) : i \in SuffixOwners(n) }

\* the kinds of the elements that the top-level statements of a file stand
\* for, in body order
RECURSIVE ExpectedElements(_)
ExpectedElements(body) ==
    IF body = <<>> THEN <<>>
    ELSE (CASE Head(body).type \in {"LocalStatement", "AssignmentStatement"} ->
                 <<"assignment">>
            [] Head(body).type \in {"DoStatement", "WhileStatement",
                                    "RepeatStatement", "ForNumericStatement",
                                    "ForGenericStatement"} ->
                 <<"block">>
            [] Head(body).type = "FunctionDeclaration" -> <<"block">>
            [] Head(body).type = "IfStatement" ->
                 [i \in 1..Len(Head(body).clauses) |-> "block"]
            [] Head(body).type = "CallStatement" ->
                 \* a `require "x"` statement stands for a file, not a call
                 IF /\ Head(body).expression.type = "StringCallExpression"
                    /\ Head(body).expression.base.type = "Identifier"
                    /\ Head(body).expression.base.name = "require"
                 THEN <<>>
                 ELSE IF Head(body).expression.type = "CallExpression"
                      THEN <<"call">>
                      ELSE <<>>
            [] OTHER -> <<>>)
         \o ExpectedElements(Tail(body))

ElementKinds(file) == [i \in 1..Len(file.elements) |-> file.elements[i].type]

\* C10: after resolveTypes every returned file holds the elements of its
\* top-level statements, in body order.
PopulatedTrees ==
    pc = "done" =>
        \A k \in 1..Len(result) :
            ElementKinds(result[k]) = ExpectedElements(result[k].node.body)

\* the walk of pass 2 itself builds these elements, before cleanup
WalkBuildsElements ==
    (pc = "types" /\ ti <= Len(result)) =>
        ElementKinds(processFile(result[ti], pass)) =
            ExpectedElements(result[ti].node.body)

\* ------------------------------------------ what the file of the walk says
\* Read off the syntax tree by Lua's scoping, apart from the analyzer's walk.
\* the names a function binds in its body: its parameters, and self for a
\* method
ParamNames(f) ==
    { f.parameters[i].name :
        i \in { j \in 1..Len(f.parameters) :
                  f.parameters[j].type = "Identifier" } }
    \cup (IF f.identifier.type = "MemberExpression" THEN {"self"} ELSE {})

\* the name a statement binds for the statements after it: a local
\* declaration of one name
Binds(statement) ==
    IF statement.type = "LocalStatement" /\ Len(statement.variables) = 1
    THEN {statement.variables[1].name}
    ELSE {}

RECURSIVE ExprReads(_, _, _)
RECURSIVE StmtReads(_, _, _)
RECURSIVE BodyReads(_, _, _)

\* the names an expression reads that `bound` does not bind.  With every =
\* FALSE only the positions of a statement listed first in the file's
\* grammar are counted: the initializers that have a target, and no
\* condition or loop bound
ExprReads(e, bound, every) ==
    CASE e.type = "Identifier" -> {e.name} \ bound
      [] e.type = "MemberExpression" -> ExprReads(e.base, bound, every)
      [] e.type = "IndexExpression" ->
           ExprReads(e.base, bound, every) \cup ExprReads(e.index, bound, every)
      [] e.type = "CallExpression" ->
           ExprReads(e.base, bound, every)
           \cup UNION { ExprReads(e.arguments[i], bound, every) :
                          i \in 1..Len(e.arguments) }
      [] e.type = "StringCallExpression" -> ExprReads(e.base, bound, every)
      [] e.type = "TableCallExpression" ->
           ExprReads(e.base, bound, every) \cup ExprReads(e.targ, bound, every)
      [] e.type = "TableConstructorExpression" ->
           UNION { ExprReads(e.fields[i].value, bound, every)
                   \cup (IF e.fields[i].type = "TableKey"
                         THEN ExprReads(e.fields[i].key, bound, every)
                         ELSE {}) : i \in 1..Len(e.fields) }
      [] e.type = "FunctionDeclaration" ->
           BodyReads(e.body, bound \cup ParamNames(e), every)
      [] e.type = "UnaryExpression" -> ExprReads(e.argument, bound, every)
      [] e.type \in {"BinaryExpression", "LogicalExpression"} ->
           ExprReads(e.left, bound, every) \cup ExprReads(e.right, bound, every)
      [] OTHER -> {}

StmtReads(st, bound, every) ==
    CASE st.type \in {"LocalStatement", "AssignmentStatement"} ->
           UNION { ExprReads(st.init[i], bound, every) :
                     i \in { j \in 1..Len(st.init) :
                               every \/ j <= Len(st.variables) } }
           \cup UNION { ExprReads(st.variables[i].base, bound, every) :
                          i \in { j \in 1..Len(st.variables) :
                                    st.variables[j].type # "Identifier" } }
      [] st.type = "CallStatement" -> ExprReads(st.expression, bound, every)
      [] st.type = "ReturnStatement" ->
           UNION { ExprReads(st.arguments[i], bound, every) :
                     i \in 1..Len(st.arguments) }
      [] st.type = "IfStatement" ->
           UNION { BodyReads(st.clauses[i].body, bound, every)
                   \cup (IF every /\ st.clauses[i].type # "ElseClause"
                         THEN ExprReads(st.clauses[i].condition, bound, every)
                         ELSE {}) : i \in 1..Len(st.clauses) }
      [] st.type \in {"WhileStatement", "RepeatStatement"} ->
           BodyReads(st.body, bound, every)
           \cup (IF every THEN ExprReads(st.condition, bound, every) ELSE {})
      [] st.type = "DoStatement" -> BodyReads(st.body, bound, every)
      [] st.type = "ForNumericStatement" ->
           BodyReads(st.body, bound \cup {st.variable.name}, every)
           \cup (IF every
                 THEN ExprReads(st.start, bound, every)
                      \cup ExprReads(st.end, bound, every)
                      \cup ExprReads(st.step, bound, every)
                 ELSE {})
      [] st.type = "ForGenericStatement" ->
           BodyReads(st.body,
                     bound \cup { st.variables[i].name :
                                    i \in 1..Len(st.variables) }, every)
           \cup UNION { ExprReads(st.iterators[i], bound, every) :
                          i \in 1..Len(st.iterators) }
      [] st.type = "FunctionDeclaration" ->
           BodyReads(st.body, bound \cup ParamNames(st), every)
      [] OTHER -> {}

BodyReads(body, bound, every) ==
    UNION { StmtReads(body[i],
                      bound \cup UNION { Binds(body[j]) : j \in 1..(i - 1) },
                      every) : i \in 1..Len(body) }

\* the file of the walk
WalkBody == wfile.node.body

\* names no statement of the pool binds
UnboundNames == {"G", "H"}

\* names the statements of the pool bind
LocalNames == {"x", "y", "v", "self", "f"}

\* a call of the bare identifier require with a string literal as its sole
\* argument, in either form
IsRequireCall(e) ==
    /\ e.type \in {"CallExpression", "StringCallExpression"}
    /\ e.base.type = "Identifier"
    /\ e.base.name = "require"
    /\ IF e.type = "StringCallExpression"
       THEN e.argument.type = "StringLiteral"
       ELSE Len(e.arguments) = 1 /\ e.arguments[1].type = "StringLiteral"

\* the text between the quotes of its argument
RequiredText(e) ==
    LET lit == IF e.type = "StringCallExpression" THEN e.argument
               ELSE e.arguments[1]
    IN  SubSeq(lit.raw, 2, Len(lit.raw) - 1)

\* the expressions the top-level statements of the file evaluate first
TopExpressions(body) ==
    [i \in { j \in 1..Len(body) :
               \/ body[j].type = "CallStatement"
               \/ body[j].type = "LocalStatement" /\ body[j].init # <<>> } |->
        IF body[i].type = "CallStatement" THEN body[i].expression
        ELSE body[i].init[1]]

\* the texts the file requires, by form of call
RequiredTexts(body, forms) ==
    LET es == TopExpressions(body)
    IN  { RequiredText(es[i]) :
            i \in { j \in DOMAIN es :
                      IsRequireCall(es[j]) /\ es[j].type \in forms } }

\* C6: after the pass-1 walk of a file, each require call with a sole
\* string-literal argument, `require("x")` as `require "x"`, has put the
\* normalized identity of x in the file's required-file set, and no global
\* read of require is recorded.
RequireIsDependency ==
    (wpc = "walked" /\ wpass = DepPass) =>
        LET texts == RequiredTexts(WalkBody,
                         {"CallExpression", "StringCallExpression"})
        IN  /\ \A x \in texts :
                 getFileIdentifier(x) \in Range(wfile.fileDependencies)
            /\ texts # {} => "require" \notin Range(wfile.globalDependencies)

\* the string-call form alone is recorded as a required file
StringCallRequireIsDependency ==
    (wpc = "walked" /\ wpass = DepPass) =>
        LET texts == RequiredTexts(WalkBody, {"StringCallExpression"})
        IN  /\ \A x \in texts :
                 getFileIdentifier(x) \in Range(wfile.fileDependencies)
            /\ (texts # {} /\ RequiredTexts(WalkBody, {"CallExpression"}) = {})
                 => "require" \notin Range(wfile.globalDependencies)

\* the k-th scope on the path from b to the root; 0 past the root
RECURSIVE AncestorAt(_, _, _)
AncestorAt(w, b, k) ==
    IF k = 0 \/ b = 0 THEN b ELSE AncestorAt(w, w.blocks[b].parent, k - 1)

\* the distances from b of the scopes on its path that bind name
BindingDepths(w, b, name) ==
    { k \in 0..Len(w.blocks) :
        /\ AncestorAt(w, b, k) # 0
        /\ name \in DOMAIN w.blocks[AncestorAt(w, b, k)].locals }

NearestBinding(w, b, name) ==
    LET ks == BindingDepths(w, b, name)
    IN  IF ks = {} THEN NoLocal
        ELSE [found |-> TRUE,
              block |-> AncestorAt(w, b, CHOOSE k \in ks : \A j \in ks : k <= j)]

\* C8: getLocal(name) on a scope gives the LocalSymbol of the nearest scope
\* that binds name on the path from the scope to the file root, and nothing
\* only if none binds it; and in pass 1 a name whose every read lies in a
\* scope that binds it is never recorded as a global read.
GetLocalNearest ==
    /\ \A b \in 1..Len(walk.blocks) : \A n \in LocalNames :
         getLocal(walk, b, n) = NearestBinding(walk, b, n)
    /\ (wpass = DepPass /\ wpc \in {"walking", "walked"}) =>
         \A n \in LocalNames :
            n \notin BodyReads(WalkBody, {}, TRUE)
               => n \notin Range(walk.globalDependencies)

\* `local x = G` followed by `function f(x) return x end` has been walked in
\* pass 1: the root and the function scope both bind x, the lookup from the
\* function scope gives the function's x, and x is no global read
GetLocalNearestWitness ==
    /\ wpc = "walked"
    /\ wpass = DepPass
    /\ Len(WalkBody) = 2
    /\ WalkBody[1].type = "LocalStatement"
    /\ WalkBody[2].type = "FunctionDeclaration"
    /\ Len(WalkBody[2].body) = 1
    /\ WalkBody[2].body[1].type = "ReturnStatement"
    /\ "x" \in ParamNames(WalkBody[2])
    /\ Len(walk.blocks) = 2
    /\ "x" \in DOMAIN walk.blocks[1].locals
    /\ "x" \in DOMAIN walk.blocks[2].locals
    /\ walk.blocks[2].parent = 1
    /\ getLocal(walk, 2, "x") = [found |-> TRUE, block |-> 2]
    /\ getLocal(walk, 1, "x") = [found |-> TRUE, block |-> 1]
    /\ "x" \notin Range(walk.globalDependencies)
    /\ "G" \in Range(walk.globalDependencies)

\* C9: after a file is read in pass 1, every name bound nowhere that the
\* file reads, in whatever expression position, is in the file's global-read
\* set unless the file writes it.
GlobalReadsRecorded ==
    (wpc = "cleaned" /\ wpass = DepPass) =>
        \A n \in UnboundNames \cap BodyReads(WalkBody, {}, TRUE) :
            \/ n \in Range(wfile.globalDependencies)
            \/ n \in Range(wfile.globalsSet)

\* the reads in initializers that have a target, call callees and arguments,
\* return values, assignment bases and generic-for iterators are recorded
WalkedReadsRecorded ==
    (wpc = "cleaned" /\ wpass = DepPass) =>
        \A n \in UnboundNames \cap BodyReads(WalkBody, {}, FALSE) :
            \/ n \in Range(wfile.globalDependencies)
            \/ n \in Range(wfile.globalsSet)

\* ------------------------------------------------- claims on the pipeline
\* the run has returned its files, to the caller or to resolveTypes
FilesReturned == pc \in {"returned", "types", "done"}

\* C11: every file resolveDependencies returned, then and after resolveTypes,
\* has its three dependency sets empty: global reads, global writes and
\* required files.
TransientSetsCleared ==
    FilesReturned =>
        \A k \in 1..Len(result) :
            /\ result[k].globalDependencies = <<>>
            /\ result[k].globalsSet = <<>>
            /\ result[k].fileDependencies = <<>>

\* the sets of global reads and of required files are empty
ReadsAndRequiresCleared ==
    FilesReturned =>
        \A k \in 1..Len(result) :
            /\ result[k].globalDependencies = <<>>
            /\ result[k].fileDependencies = <<>>

\* one step of a run of analyze, as C12 has it
PassesInSequenceStep ==
    \* the pass turns to type-resolution only when every discovered file is
    \* read and the order is computed, and pass 2 starts at its first file
    /\ (pass = DepPass /\ pass' = TypePass) =>
          /\ pc = "returned"
          /\ di > Len(disk)
          /\ result' = result
          /\ ti' = 1
    \* and it does not turn back
    /\ pass = TypePass => pass' = TypePass
    \* a file is read and walked in pass 1 with pass = dependency-resolution
    /\ (pc = "read" /\ di' # di) => pass = DepPass
    \* a file is walked in pass 2 with pass = type-resolution, and it is the
    \* next file of the order
    /\ (pc = "types" /\ ti' # ti) =>
          /\ pass = TypePass
          /\ ti <= Len(result)
          /\ ti' = ti + 1
    /\ pc = "types" => OrderOf(result') = OrderOf(result)

\* C12: in a run of analyze no file is walked in pass 2 before every
\* discovered file is read and walked in pass 1 and the order is computed;
\* the pass never turns back from type-resolution to dependency-resolution;
\* and pass 2 walks the files one after the other in the order pass 1
\* returned.
PassesInSequence == [][PassesInSequenceStep]_vars

\* pass 2 has walked the first of two or more returned files
PassesInSequenceWitness ==
    /\ pc = "types"
    /\ pass = TypePass
    /\ ti = 2
    /\ Len(result) >= 2
    /\ di > Len(disk)

\* the file of the disk cannot be read, parsed or walked
Fails(e) == e.src.type \in {"Unreadable", "Malformed", "Unwalkable"}

\* the identities of the files that are read, parsed and walked
SoundIdentities == { EntryId(disk[i]) : i \in { j \in Entries : ~Fails(disk[j]) } }

\* one step of resolveDependencies, as C13 has it
FailureIsolatedStep ==
    \* readFile is done with a file
    /\ (pc = "read" /\ di' # di) =>
          IF Fails(disk[di])
          THEN /\ Len(errors') = Len(errors) + 1
               /\ SubSeq(errors', 1, Len(errors)) = errors
               /\ files' = files
               /\ fileAliases' = fileAliases
               /\ globalSetters' = globalSetters
               /\ pc' = "read"
               /\ di' = di + 1
          ELSE /\ errors' = errors
               /\ FileIndex(files'[disk[di].subdir], EntryId(disk[di])) # 0
    \* resolveDependencies has returned
    /\ pc = "returned" =>
          /\ \A i \in Entries :
               Fails(disk[i]) =>
                  FileIndex(files[disk[i].subdir], EntryId(disk[i])) = 0
          /\ \A k \in DOMAIN fileAliases :
               Range(fileAliases[k]) \subseteq SoundIdentities
          /\ \A g \in DOMAIN globalSetters :
               Range(globalSetters[g]) \subseteq SoundIdentities
          /\ \A i \in Entries :
               (/\ ~Fails(disk[i])
                /\ \A j \in Entries :
                     (~Fails(disk[j]) /\ EntryId(disk[j]) = EntryId(disk[i]))
                        => j = i)
                  => PosOf(i) # 0

PassJustStarted == (pc = "read" /\ di = 1) \/ (pc = "types" /\ ti = 1)

\* C14: at the start of each pass the global-setter table and the alias
\* table are both empty: nothing written in an earlier pass or an earlier run
\* of the same Analyzer is left.
TablesResetAtPass ==
    PassJustStarted => (globalSetters = EmptyMap /\ fileAliases = EmptyMap)

\* the global-setter table is empty at the start of each pass
SettersResetAtPass == PassJustStarted => globalSetters = EmptyMap

\* a cycle of dependencies that has a loose edge in it
HasLooseCycle ==
    \E i, j \in Entries :
        LooseEdge(i, j) /\ ~HardEdge(i, j) /\ (i = j \/ DepReach(j, i))

\* C15: with no cycle in the resolved hard-require graph the ordering loop
\* ends, whatever the loose dependencies: from every state of the loop the
\* queue of the group runs empty.
AcyclicOrderingEnds == (pc = "loop" /\ ~HasHardCycle) ~> (pc = "group")

\* resolveDependencies has returned the files of a disk with a cycle through
\* a loose dependency and none of hard requires
AcyclicOrderingEndsWitness ==
    /\ pc = "returned"
    /\ ~HasHardCycle
    /\ HasLooseCycle
    /\ \E i, j \in Entries :
          i # j /\ LooseEdge(i, j) /\ LooseEdge(j, i)
    /\ Len(result) = Len(disk)

\* ---------------------------------------------- claims on local bindings
\* the target of a top-level local declaration is bound in the file's scope
\* once the file is walked, and, where the declaration opens the file and
\* does not read the name itself, the name is neither a global read nor a
\* global write of the file (the sets are filled in pass 1 only)
TargetBound(i, j) ==
    LET n == WalkBody[i].variables[j].name
    IN  /\ getLocal(walk, 1, n).found
        /\ (wpass = DepPass /\ i = 1
            /\ n \notin StmtReads(WalkBody[1], {}, TRUE)) =>
              /\ n \notin Range(walk.globalDependencies)
              /\ n \notin Range(walk.globalsSet)

\* C16: after a local declaration is processed, in pass 1 as in pass 2,
\* every one of its targets is bound as a local of the declaring scope, so
\* that later reads of it are no global reads and later assignments to it
\* are no global writes.
LocalTargetsBound ==
    (wpc = "walked") =>
        \A i \in 1..Len(WalkBody) :
            (WalkBody[i].type = "LocalStatement") =>
                \A j \in 1..Len(WalkBody[i].variables) : TargetBound(i, j)

\* the first target is bound in both passes, and every target in pass 2
FirstLocalTargetBound ==
    (wpc = "walked") =>
        \A i \in 1..Len(WalkBody) :
            (WalkBody[i].type = "LocalStatement") =>
                \A j \in 1..Len(WalkBody[i].variables) :
                    (j = 1 \/ wpass = TypePass) => TargetBound(i, j)

\* the record of the walk for a top-level declaration `local x = x` of a
\* file that binds x nowhere before it
SelfInitAt(i) ==
    /\ WalkBody[i].type = "LocalStatement"
    /\ Len(WalkBody[i].variables) = 1
    /\ Len(WalkBody[i].init) = 1
    /\ WalkBody[i].init[1].type = "Identifier"
    /\ WalkBody[i].init[1].name = WalkBody[i].variables[1].name
    /\ \A j \in 1..(i - 1) :
          WalkBody[i].variables[1].name \notin Binds(WalkBody[j])
          /\ WalkBody[j].type # "LocalStatement"
          /\ ~(WalkBody[j].type = "FunctionDeclaration" /\ WalkBody[j].isLocal)

\* the names of the pool an expression reads where nothing is bound
OpenReads(e) == ExprReads(e, {}, TRUE) \cap (UnboundNames \cup LocalNames)

\* C17: the initializer expressions of a local declaration are all read,
\* left to right, before any of its names is bound: where the declaration
\* opens the file, every name its initializers read is a global read of
\* pass 1, and the binding affects only what comes after the statement.
InitializersReadFirst ==
    (wpc = "walked" /\ wpass = DepPass /\ WalkBody # <<>>) =>
        ((WalkBody[1].type = "LocalStatement") =>
            \A k \in 1..Len(WalkBody[1].init) :
                OpenReads(WalkBody[1].init[k])
                    \subseteq Range(walk.globalDependencies))

\* in `local x = x` with x unbound beforehand the right-hand x is a global
\* read of pass 1
SelfInitializerIsGlobalRead ==
    (wpc = "walked" /\ wpass = DepPass) =>
        \A i \in 1..Len(WalkBody) :
            SelfInitAt(i) =>
                WalkBody[i].init[1].name \in Range(walk.globalDependencies)

\* the initializers that have a target and are no function literal are read
\* before the names are bound
PlainInitializersReadFirst ==
    (wpc = "walked" /\ wpass = DepPass /\ WalkBody # <<>>) =>
        ((WalkBody[1].type = "LocalStatement") =>
            \A k \in 1..Len(WalkBody[1].init) :
                (k <= Len(WalkBody[1].variables)
                 /\ WalkBody[1].init[k].type # "FunctionDeclaration") =>
                    OpenReads(WalkBody[1].init[k])
                        \subseteq Range(walk.globalDependencies))

\* ------------------------------------------------ claims on assignments
\* the block the walk is about to pop, and its body
PoppedBlock == walk.stack[Len(walk.stack)]
PoppedBody == getBody(walk, PoppedBlock)

\* the heap when statement i of the popped block is reached: the block is
\* popped and the statements before i are read
HeapAt(i) ==
    readBody([walk EXCEPT !.stack = SubSeq(@, 1, Len(@) - 1)],
             SubSeq(PoppedBody, 1, i - 1), PoppedBlock)

\* the tag of a target, by the scope chain of heap w at block b
TagOf(w, b, left) ==
    IF left.type # "Identifier" THEN "set-field"
    ELSE IF getLocal(w, b, left.name).found THEN "local-reassign"
    ELSE "global"

\* the names of the targets of a statement that have tag t
TaggedNames(w, b, statement, t) ==
    { statement.variables[k].name :
        k \in { j \in 1..Len(statement.variables) :
                  statement.variables[j].type = "Identifier"
                  /\ TagOf(w, b, statement.variables[j]) = t } }

\* statement i of the popped block, an assignment, is recorded as the claim
\* says
AssignmentClassified(i) ==
    LET b == PoppedBlock
        st == PoppedBody[i]
        before == HeapAt(i)
        after == HeapAt(i + 1)
        k == Len(after.asg)
    IN  /\ \A j \in 1..Len(st.variables) :
              (st.variables[j].type # "Identifier"
               /\ st.variables[j].base.type = "Identifier"
               /\ ~getLocal(before, b, st.variables[j].base.name).found
               /\ walk.pass = DepPass) =>
                  st.variables[j].base.name \in Range(after.globalDependencies)
        /\ (walk.pass = DepPass) =>
              /\ Range(after.globalsSet) =
                    Range(before.globalsSet)
                    \cup TaggedNames(before, b, st, "global")
              /\ Range(after.globalsSet) \subseteq Range(walk'.globalsSet)
        /\ (walk.pass # DepPass) =>
              /\ k > Len(before.asg)
              /\ k <= Len(walk'.asg)
              /\ walk'.asg[k].assignTypes =
                    [j \in 1..Len(st.variables) |->
                        TagOf(before, b, st.variables[j])]
              /\ Len(walk'.asg[k].lhs) = Len(st.variables)
              /\ \E e \in 1..Len(walk'.blocks[b].elements) :
                    /\ walk'.blocks[b].elements[e].type = "assignment"
                    /\ walk'.blocks[b].elements[e].asg = k
              /\ \A n \in TaggedNames(before, b, st, "local-reassign") :
                    LET owner == getLocal(before, b, n).block
                    IN  after.blocks[owner].locals[n] =
                            Append(before.blocks[owner].locals[n], k)
              /\ \A n \in TaggedNames(before, b, st, "global") :
                    ~getLocal(after, b, n).found

AssignmentsClassifiedStep ==
    (wpc = "walking" /\ walk.stack # <<>> /\ walk' # walk) =>
        \A i \in 1..Len(PoppedBody) :
            (PoppedBody[i].type = "AssignmentStatement") =>
                AssignmentClassified(i)

GlobalTagged ==
    UNION { { walk.asg[k].lhs[j].name :
                j \in { t \in 1..Len(walk.asg[k].lhs) :
                          walk.asg[k].assignTypes[t] = "global" } } :
            k \in 1..Len(walk.asg) }

\* C19: the names pass 1 records as global writes of a file are the
\* identifier targets tagged global in the assignment records pass 2 builds
\* for the file.
PassesAgreeOnGlobalWrites ==
    (wpc = "walked" /\ wpass = TypePass) =>
        Range(wfile.globalsSet) = GlobalTagged

\* the passes agree on files without a local declaration of several names
PassesAgreeWithoutMultiLocal ==
    (wpc = "walked" /\ wpass = TypePass
     /\ \A i \in 1..Len(WalkBody) :
           ~(WalkBody[i].type = "LocalStatement"
             /\ Len(WalkBody[i].variables) > 1)) =>
        Range(wfile.globalsSet) = GlobalTagged

\* ------------------------------------------------- claims on the scopes
RECURSIVE ExprScopes(_)
RECURSIVE ExprsScopes(_)
RECURSIVE FieldsScopes(_)

\* the function literals readExpression comes upon in an expression, in the
\* order it reads
ExprScopes(e) ==
    CASE e.type = "MemberExpression" -> ExprScopes(e.base)
      [] e.type = "IndexExpression" -> ExprScopes(e.base) \o ExprScopes(e.index)
      [] e.type = "CallExpression" ->
           IF requireName(e) # <<>> THEN <<>>
           ELSE ExprScopes(e.base) \o ExprsScopes(e.arguments)
      [] e.type = "StringCallExpression" ->
           IF requireName(e) # <<>> THEN <<>>
           ELSE ExprScopes(e.base) \o ExprScopes(e.argument)
      [] e.type = "TableCallExpression" ->
           ExprScopes(e.base) \o ExprScopes(e.targ)
      [] e.type = "TableConstructorExpression" -> FieldsScopes(e.fields)
      [] e.type = "FunctionDeclaration" -> <<e>>
      [] e.type = "UnaryExpression" -> ExprScopes(e.argument)
      [] e.type \in {"BinaryExpression", "LogicalExpression"} ->
           ExprScopes(e.left) \o ExprScopes(e.right)
      [] OTHER -> <<>>

ExprsScopes(list) ==
    IF list = <<>> THEN <<>>
    ELSE ExprScopes(Head(list)) \o ExprsScopes(Tail(list))

FieldsScopes(fields) ==
    IF fields = <<>> THEN <<>>
    ELSE ExprScopes(Head(fields).value)
         \o (IF Head(fields).type = "TableKey"
             THEN ExprScopes(Head(fields).key) ELSE <<>>)
         \o FieldsScopes(Tail(fields))

\* the scope-introducing constructs the walk comes upon in one statement
StmtScopes(st) ==
    CASE st.type \in {"LocalStatement", "AssignmentStatement"} ->
           ExprsScopes(SelectSeq([i \in 1..Len(st.variables) |->
                                     IF i <= Len(st.init) THEN st.init[i]
                                     ELSE NoNode],
                                 LAMBDA e : e.type # "None"))
           \o ExprsScopes([i \in 1..Len(st.variables) |->
                             IF st.variables[i].type # "Identifier"
                             THEN st.variables[i].base ELSE NoNode])
      [] st.type = "CallStatement" -> ExprScopes(st.expression)
      [] st.type = "ReturnStatement" -> ExprsScopes(st.arguments)
      [] st.type = "IfStatement" -> st.clauses
      [] st.type \in {"FunctionDeclaration", "DoStatement", "WhileStatement",
                      "RepeatStatement", "ForNumericStatement"} -> <<st>>
      [] st.type = "ForGenericStatement" ->
           ExprsScopes(st.iterators) \o <<st>>
      [] OTHER -> <<>>

RECURSIVE BodyScopes(_)
BodyScopes(body) ==
    IF body = <<>> THEN <<>>
    ELSE StmtScopes(Head(body)) \o BodyScopes(Tail(body))

RECURSIVE ScopeTotal(_)
RECURSIVE ScopesTotal(_)
\* the scopes of a body and of the bodies within
ScopeTotal(body) == ScopesTotal(BodyScopes(body))

ScopesTotal(nodes) ==
    IF nodes = <<>> THEN 0
    ELSE 1 + ScopeTotal(Head(nodes).body) + ScopesTotal(Tail(nodes))

\* how often block c is among the children of block p
TimesChild(w, p, c) ==
    Cardinality({ i \in 1..Len(w.blocks[p].children) :
                    w.blocks[p].children[i] = c })

\* what is left of the walk: the scope constructs of the file that have no
\* block yet, and the blocks on the stack
WalkLeft(w) == (1 + ScopeTotal(WalkBody) - Len(w.blocks)) + Len(w.stack)

\* a step of the walk pops the top block, makes one block for each scope
\* construct of its body, in source order, as a child of the popped block,
\* and pushes each once; what is left of the walk is one less
ScopesStep ==
    (wpc = "walking" /\ walk.stack # <<>> /\ wpc' = "walking") =>
        LET b == PoppedBlock
            scopes == BodyScopes(PoppedBody)
            n == Len(walk.blocks)
            fresh == [i \in 1..Len(scopes) |-> n + i]
        IN  /\ WalkLeft(walk') = WalkLeft(walk) - 1
            /\ WalkLeft(walk') >= 0
            /\ Len(walk'.blocks) = n + Len(scopes)
            /\ walk'.stack = SubSeq(walk.stack, 1, Len(walk.stack) - 1) \o fresh
            /\ walk'.blocks[b].children = fresh
            /\ \A i \in 1..Len(scopes) :
                  /\ walk'.blocks[n + i].parent = b
                  /\ walk'.blocks[n + i].node.type = scopes[i].type
                  /\ walk'.blocks[n + i].children = <<>>
            /\ \A c \in 1..n : c # b =>
                  /\ walk'.blocks[c].children = walk.blocks[c].children
                  /\ walk'.blocks[c].parent = walk.blocks[c].parent

\* no block is on the stack twice, and a block on the stack has not been
\* walked: it has no children yet
ScopesPending ==
    (wpc = "walking") =>
        /\ (walk.stack = <<>>) <=> (WalkLeft(walk) = 0)
        /\ \A i, j \in 1..Len(walk.stack) :
              walk.stack[i] = walk.stack[j] => i = j
        /\ \A i \in 1..Len(walk.stack) :
              /\ walk.stack[i] \in 1..Len(walk.blocks)
              /\ walk.blocks[walk.stack[i]].children = <<>>

\* processFile has returned: the stack is empty and every scope construct
\* has its one block, under one parent
ScopesWalked ==
    (wpc = "walked") =>
        /\ walk.stack = <<>>
        /\ Len(walk.blocks) = 1 + ScopeTotal(WalkBody)
        /\ walk.blocks[1].parent = 0
        /\ \A c \in 2..Len(walk.blocks) :
              /\ walk.blocks[c].parent \in 1..(c - 1)
              /\ \A p \in 1..Len(walk.blocks) :
                    TimesChild(walk, p, c) =
                        IF p = walk.blocks[c].parent THEN 1 ELSE 0

\* C20: processFile ends, for every syntax tree, with the work stack empty
\* (every iteration of its loop leaves one less to walk, down to nothing),
\* and every scope-introducing construct it comes upon gets exactly one
\* block, pushed once and popped once, under exactly one parent, with its
\* body read in source order.
ScopesWalkedOnce ==
    /\ [][ScopesStep]_vars
    /\ [](ScopesPending /\ ScopesWalked)

\* the walk of `function f(x) do local x = 1; return x end end` has ended:
\* three blocks, the do block under the function, the function under the
\* file
ScopesWalkedOnceWitness ==
    /\ wpc = "walked"
    /\ walk.stack = <<>>
    /\ Len(walk.blocks) = 3
    /\ walk.blocks[2].node.type = "FunctionDeclaration"
    /\ walk.blocks[3].node.type = "DoStatement"
    /\ walk.blocks[3].parent = 2
    /\ walk.blocks[2].parent = 1
    /\ walk.blocks[1].children = <<2>>
    /\ walk.blocks[2].children = <<3>>

\* ------------------------------------------------- claims on the order
\* no require of a file resolves to a file and no global a file reads is
\* written by a file
NoDependencies == \A i, j \in Entries : ~DepEdge(i, j)

\* file i is loaded before file j: an earlier group, or the same group and
\* an identity that is less when both are in upper case
LoadsBefore(i, j) ==
    \/ SubdirIndex(disk[i].subdir) < SubdirIndex(disk[j].subdir)
    \/ /\ disk[i].subdir = disk[j].subdir
       /\ CodesLess(ToUpperCodes(EntryId(disk[i])),
                    ToUpperCodes(EntryId(disk[j])))

\* C21: when no file has a resolved hard or loose dependency, the returned
\* order is all shared files, then all server files, then all client files,
\* each group in ascending case-insensitive order of identity.
LoadOrderWithoutDependencies ==
    (pc = "returned" /\ NoDependencies) =>
        /\ \A i \in Entries : PosOf(i) # 0
        /\ \A i, j \in Entries : LoadsBefore(i, j) => PosOf(i) < PosOf(j)

\* C21 for disks without a repeated identity
LoadOrderDistinctIds == DistinctIds => LoadOrderWithoutDependencies

\* file j is of a later group than file i
LaterGroup(j, i) == SubdirIndex(disk[j].subdir) > SubdirIndex(disk[i].subdir)

\* some file of a group before that of j reaches j through dependencies
PulledForward(j) == \E k \in Entries : LaterGroup(j, k) /\ DepReach(k, j)

\* C22: a returned file of a later group stands before a file of an earlier
\* group only if dependencies lead to it from some file of an earlier group;
\* otherwise every file of an earlier group stands before it.
GroupsInOrder ==
    (pc = "returned") =>
        \A i, j \in Entries :
            (LaterGroup(j, i) /\ PosOf(j) # 0 /\ ~PulledForward(j)) =>
                (PosOf(i) # 0 /\ PosOf(i) < PosOf(j))

\* C22 among the files that are returned
ReturnedGroupsInOrder ==
    (pc = "returned") =>
        \A i, j \in Entries :
            (LaterGroup(j, i) /\ PosOf(j) # 0 /\ PosOf(i) # 0
             /\ ~PulledForward(j)) => PosOf(i) < PosOf(j)

\* C22 for disks without a repeated identity
GroupsInOrderDistinctIds == DistinctIds => GroupsInOrder

\* ---------------------------------------------- claims on nested scopes
\* the statements that open a scope of their own
ScopeStatements ==
    {"FunctionDeclaration", "DoStatement", "WhileStatement",
     "RepeatStatement", "ForNumericStatement", "ForGenericStatement",
     "IfStatement"}

\* statement j of the file declares the local n
DeclaresLocal(j, n) ==
    \/ /\ WalkBody[j].type = "LocalStatement"
       /\ \E k \in 1..Len(WalkBody[j].variables) :
             WalkBody[j].variables[k].name = n
    \/ /\ WalkBody[j].type = "FunctionDeclaration"
       /\ WalkBody[j].isLocal
       /\ WalkBody[j].identifier.type = "Identifier"
       /\ WalkBody[j].identifier.name = n

\* the names of the pool that the scope opened by statement i reads and does
\* not bind itself
NestedReads(i) ==
    { n \in StmtReads(WalkBody[i], {}, FALSE) \cap (UnboundNames \cup LocalNames) :
        ~DeclaresLocal(i, n) }

\* C23: a read inside a nested scope resolves only against the bindings the
\* enclosing scope declared before the nested construct: a name the file
\* declares local only after the construct, read inside it with no other
\* binding, is a global read of pass 1.
NestedReadsSeeEarlierOnly ==
    (wpc = "walked" /\ wpass = DepPass) =>
        \A i \in 1..Len(WalkBody) :
            (WalkBody[i].type \in ScopeStatements) =>
                \A n \in NestedReads(i) :
                    (\A j \in 1..(i - 1) : ~DeclaresLocal(j, n)) =>
                        n \in Range(walk.globalDependencies)

\* the same for names the file declares local nowhere
NestedReadsOfUndeclared ==
    (wpc = "walked" /\ wpass = DepPass) =>
        \A i \in 1..Len(WalkBody) :
            (WalkBody[i].type \in ScopeStatements) =>
                \A n \in NestedReads(i) :
                    (\A j \in 1..Len(WalkBody) : ~DeclaresLocal(j, n)) =>
                        n \in Range(walk.globalDependencies)

\* ------------------------------------------------ claims on the two passes
\* the three sets of a file
SetsOf(f) == <<f.globalDependencies, f.globalsSet, f.fileDependencies>>

\* the tags of the records LuaBlock.addBlockLocals makes
BindingTags == {"parameter", "generic-for", "numeric-for"}

\* the walk of pass 1 has given no scope a call record, a return reference
\* or a record of a plain or local assignment
NoRecordsInDepPass ==
    (wpass = DepPass /\ wpc \in {"walking", "walked"}) =>
        \A b \in 1..Len(walk.blocks) :
            /\ walk.blocks[b].returns = <<>>
            /\ \A e \in 1..Len(walk.blocks[b].elements) :
                  /\ walk.blocks[b].elements[e].type # "call"
                  /\ (walk.blocks[b].elements[e].type = "assignment") =>
                        \A t \in 1..Len(walk.asg[walk.blocks[b].elements[e].asg].assignTypes) :
                            walk.asg[walk.blocks[b].elements[e].asg].assignTypes[t]
                                \in BindingTags

\* a step of pass 2 leaves the sets of every file and the two tables as they
\* are: in resolveTypes, and in the walk of one file
TypePassFrameStep ==
    /\ (pc = "types") =>
          /\ globalSetters' = globalSetters
          /\ fileAliases' = fileAliases
          /\ Len(result') = Len(result)
          /\ \A k \in 1..Len(result) : SetsOf(result'[k]) = SetsOf(result[k])
    /\ (wpass = TypePass /\ wpass' = TypePass) =>
          /\ globalSetters' = globalSetters
          /\ fileAliases' = fileAliases
          /\ (wpc = "ready" /\ wpc' = "walking") => SetsOf(walk') = SetsOf(wfile)
          /\ (wpc = "walking" /\ wpc' = "walking") => SetsOf(walk') = SetsOf(walk)
          /\ (wpc = "walking" /\ wpc' = "walked") => SetsOf(wfile') = SetsOf(walk)
          /\ (wpc = "walked" /\ wpc' = "cleaned") => SetsOf(wfile') = SetsOf(wfile)

ResidualReads(i) == ReadGlobals(disk[i].src) \ WrittenGlobals(disk[i].src)

\* the loose dependencies the reads of a file stand for: for each global
\* that some file writes, the identity of the first file read that writes it
ExpectedLooseDeps(i) ==
    { EntryId(disk[CanonicalSetter(g)]) :
        g \in { h \in ResidualReads(i) : CanonicalSetter(h) # 0 } }

\* the entry of the file maps for a file of the disk
FileEntryOf(i) ==
    LET g == disk[i].subdir
        hits == { k \in 1..Len(files[g]) : files[g][k].name = EntryId(disk[i]) }
    IN  files[g][CHOOSE k \in hits : TRUE]

\* C25: the derivation gives each file, for each global left in its
\* global-read set, no loose dependency when no parsed file writes the
\* global and otherwise exactly one, on the first file read that writes it;
\* afterwards the global-read set of the file is empty.
LooseDepsDerived ==
    (pc = "group") =>
        \A i \in Entries :
            /\ EntryId(disk[i]) \in DOMAIN looseDeps
            /\ Range(looseDeps[EntryId(disk[i])]) = ExpectedLooseDeps(i)
            /\ Len(looseDeps[EntryId(disk[i])]) = Cardinality(ExpectedLooseDeps(i))
            /\ FileEntryOf(i).globalDependencies = <<>>

\* C25 for disks without a repeated identity
LooseDepsDerivedDistinctIds == DistinctIds => LooseDepsDerived

\* pass 1 has walked a file and cleaned it up: no global is in its
\* global-read set and in its global-write set
SetsDisjoint ==
    /\ (wpc = "cleaned" /\ wpass = DepPass) =>
          Range(wfile.globalDependencies) \cap Range(wfile.globalsSet) = {}
    /\ (pc \in {"read", "group"}) =>
          \A g \in DOMAIN files : \A k \in 1..Len(files[g]) :
              Range(files[g][k].globalDependencies)
                  \cap Range(files[g][k].globalsSet) = {}

\* the loose dependencies of file i name the file itself
SelfLooseDependency(i) ==
    /\ FileOfId(EntryId(disk[i])) = i
    /\ EntryId(disk[i]) \in Range(looseDeps[EntryId(disk[i])])

\* C26: when pass 1 has walked a file and cleaned it up, its global-read set
\* is disjoint from its global-write set, whatever the order of the reads
\* and writes in the file, so that no file gets a loose dependency on itself.
ReadsDisjointFromWrites ==
    /\ SetsDisjoint
    /\ (pc = "group") => \A i \in Entries : ~SelfLooseDependency(i)

\* C26 for disks without a repeated identity
ReadsDisjointDistinctIds ==
    /\ SetsDisjoint
    /\ (pc = "group" /\ DistinctIds) => \A i \in Entries : ~SelfLooseDependency(i)

\* ------------------------------------------- claims on scope construction
\* statement i of the file is `local function n(...)`
LocalFunctionAt(i) ==
    /\ WalkBody[i].type = "FunctionDeclaration"
    /\ WalkBody[i].isLocal
    /\ WalkBody[i].identifier.type = "Identifier"

\* the file is one local function declaration, walked: its name is a local
\* of the file scope and of no other, its parameters are locals of the
\* function scope and of no other, and in pass 2 the record that binds the
\* name has the function node as its sole initializer
LocalFunctionBound ==
    LET n == WalkBody[1].identifier.name
        hist == walk.blocks[1].locals[n]
    IN  /\ DOMAIN walk.blocks[1].locals = {n}
        /\ DOMAIN walk.blocks[2].locals = ParamNames(WalkBody[1])
        /\ (wpass = TypePass) =>
              /\ hist # <<>>
              /\ walk.asg[hist[Len(hist)]].lhs = <<WalkBody[1].identifier>>
              /\ Len(walk.asg[hist[Len(hist)]].rhs) = 1
              /\ walk.asg[hist[Len(hist)]].rhs[1].type = "FunctionDeclaration"
              /\ \E e \in 1..Len(walk.blocks[1].elements) :
                    /\ walk.blocks[1].elements[e].type = "assignment"
                    /\ walk.blocks[1].elements[e].asg = hist[Len(hist)]

\* C27: once the scope of `local function f(...)` is made, in pass 1 as in
\* pass 2 and whatever the names of the parameters, f is a local of the
\* enclosing scope, bound by a record whose sole initializer is the function
\* node, and the parameters are locals of the function scope only.
LocalFunctionInParent ==
    (wpc = "walked" /\ Len(WalkBody) = 1 /\ LocalFunctionAt(1)) =>
        LocalFunctionBound

\* the same when no parameter has the name of the function
LocalFunctionOtherParams ==
    (wpc = "walked" /\ Len(WalkBody) = 1 /\ LocalFunctionAt(1)
     /\ WalkBody[1].identifier.name \notin ParamNames(WalkBody[1])) =>
        LocalFunctionBound

\* the names of the loop variables of a generic for
LoopNames(st) == { st.variables[k].name : k \in 1..Len(st.variables) }

\* block c is the scope of the generic for st, a child of the file scope
\* that binds the loop variables, each by a record tagged generic-for whose
\* initializers are the iterators
LoopScope(c, st) ==
    /\ walk.blocks[c].parent = 1
    /\ walk.blocks[c].node.type = "ForGenericStatement"
    /\ walk.blocks[c].node = st
    /\ \A v \in LoopNames(st) :
          /\ v \in DOMAIN walk.blocks[c].locals
          /\ walk.blocks[c].locals[v] # <<>>
          /\ LET r == walk.asg[walk.blocks[c].locals[v][1]]
             IN  /\ r.rhs = st.iterators
                 /\ \A t \in 1..Len(r.assignTypes) : r.assignTypes[t] = "generic-for"

\* C28: the iterator expressions of a generic for are read in the enclosing
\* scope before the scope of the loop body is made, so that an iterator
\* naming a loop variable resolves against the enclosing scopes; the loop
\* variables are bound, tagged generic-for, in the scope of the loop body
\* only, and the enclosing scope does not see them.
IteratorsReadOutside ==
    (wpc = "walked") =>
        \A i \in 1..Len(WalkBody) :
            (WalkBody[i].type = "ForGenericStatement") =>
                /\ \E c \in 2..Len(walk.blocks) : LoopScope(c, WalkBody[i])
                /\ \A v \in LoopNames(WalkBody[i]) :
                      (\A j \in 1..Len(WalkBody) : ~DeclaresLocal(j, v)) =>
                          v \notin DOMAIN walk.blocks[1].locals
                /\ (wpass = DepPass) =>
                      \A k \in 1..Len(WalkBody[i].iterators) :
                          ( /\ WalkBody[i].iterators[k].type = "Identifier"
                            /\ \A j \in 1..(i - 1) :
                                  ~DeclaresLocal(j, WalkBody[i].iterators[k].name) ) =>
                              WalkBody[i].iterators[k].name
                                  \in Range(walk.globalDependencies)

\* pass 1 has walked `for x, y in y do G(x) end`: the iterator y is a global
\* read, x and y are locals of the loop scope and not of the file scope, and
\* the x of the body is no global read
IteratorsReadOutsideWitness ==
    /\ wpc = "walked"
    /\ wpass = DepPass
    /\ Len(WalkBody) = 1
    /\ WalkBody[1].type = "ForGenericStatement"
    /\ Len(WalkBody[1].variables) = 2
    /\ WalkBody[1].iterators = <<Ident("y")>>
    /\ Len(walk.blocks) = 2
    /\ DOMAIN walk.blocks[2].locals = {"x", "y"}
    /\ DOMAIN walk.blocks[1].locals = {}
    /\ "y" \in Range(walk.globalDependencies)
    /\ "x" \notin Range(walk.globalDependencies)

\* ------------------------------------------------ claims on element order
RECURSIVE ExprElements(_)
RECURSIVE ExprsElements(_)
RECURSIVE FieldsElements(_)

\* what an expression stands for in the element list of the scope that reads
\* it, in reading order: a call for each call expression that is no require,
\* after the elements of its base and arguments, and a child scope for each
\* function literal
ExprElements(e) ==
    CASE e.type = "MemberExpression" -> ExprElements(e.base)
      [] e.type = "IndexExpression" ->
           ExprElements(e.base) \o ExprElements(e.index)
      [] e.type = "CallExpression" ->
           IF requireName(e) # <<>> THEN <<>>
           ELSE ExprElements(e.base) \o ExprsElements(e.arguments)
                \o <<[kind |-> "call", node |-> e]>>
      [] e.type = "StringCallExpression" ->
           IF requireName(e) # <<>> THEN <<>>
           ELSE ExprElements(e.base) \o ExprElements(e.argument)
      [] e.type = "TableCallExpression" ->
           ExprElements(e.base) \o ExprElements(e.targ)
      [] e.type = "TableConstructorExpression" -> FieldsElements(e.fields)
      [] e.type = "FunctionDeclaration" -> <<[kind |-> "block", node |-> e]>>
      [] e.type = "UnaryExpression" -> ExprElements(e.argument)
      [] e.type \in {"BinaryExpression", "LogicalExpression"} ->
           ExprElements(e.left) \o ExprElements(e.right)
      [] OTHER -> <<>>

ExprsElements(list) ==
    IF list = <<>> THEN <<>>
    ELSE ExprElements(Head(list)) \o ExprsElements(Tail(list))

FieldsElements(fields) ==
    IF fields = <<>> THEN <<>>
    ELSE ExprElements(Head(fields).value)
         \o (IF Head(fields).type = "TableKey"
             THEN ExprElements(Head(fields).key) ELSE <<>>)
         \o FieldsElements(Tail(fields))

\* what one statement stands for in the element list of its scope
StmtElements(st) ==
    CASE st.type \in {"LocalStatement", "AssignmentStatement"} ->
           ExprsElements([i \in 1..Len(st.variables) |->
                             IF i <= Len(st.init) THEN st.init[i] ELSE NoNode])
           \o ExprsElements([i \in 1..Len(st.variables) |->
                               IF st.variables[i].type # "Identifier"
                               THEN st.variables[i].base ELSE NoNode])
           \o <<[kind |-> "assignment", node |-> st]>>
      [] st.type = "CallStatement" -> ExprElements(st.expression)
      [] st.type = "ReturnStatement" -> ExprsElements(st.arguments)
      [] st.type = "IfStatement" ->
           [k \in 1..Len(st.clauses) |->
               [kind |-> "block", node |-> st.clauses[k]]]
      [] st.type = "FunctionDeclaration" ->
           (IF st.isLocal /\ st.identifier.type = "Identifier"
            THEN <<[kind |-> "assignment", node |-> st]>> ELSE <<>>)
           \o <<[kind |-> "block", node |-> st]>>
      [] st.type \in {"DoStatement", "WhileStatement", "RepeatStatement",
                      "ForNumericStatement"} ->
           <<[kind |-> "block", node |-> st]>>
      [] st.type = "ForGenericStatement" ->
           ExprsElements(st.iterators) \o <<[kind |-> "block", node |-> st]>>
      [] OTHER -> <<>>

\* the elements of a body: those of its first statement, then those of the
\* next, and so on
RECURSIVE BodyElements(_)
BodyElements(body) ==
    IF body = <<>> THEN <<>>
    ELSE StmtElements(Head(body)) \o BodyElements(Tail(body))

\* element e of heap w is the one that d describes
ElementIs(w, e, d) ==
    /\ e.type = d.kind
    /\ CASE d.kind = "block" -> w.blocks[e.block].node = d.node
         [] d.kind = "call" ->
              /\ e.expression = d.node.base
              /\ e.arguments = d.node.arguments
         [] d.kind = "assignment" ->
              IF d.node.type = "FunctionDeclaration"
              THEN /\ w.asg[e.asg].lhs = <<d.node.identifier>>
                   /\ w.asg[e.asg].rhs = <<d.node>>
              ELSE w.asg[e.asg].lhs = d.node.variables

\* a step of pass 2 appends to the element list of the popped scope the
\* elements of its statements, statement after statement, and leaves the
\* element lists of the other scopes as they are
ElementsStep ==
    (wpc = "walking" /\ walk.stack # <<>> /\ wpc' = "walking"
        /\ wpass = TypePass) =>
        LET old == walk.blocks[PoppedBlock].elements
            new == walk'.blocks[PoppedBlock].elements
            exp == BodyElements(PoppedBody)
        IN  /\ Len(new) = Len(old) + Len(exp)
            /\ SubSeq(new, 1, Len(old)) = old
            /\ \A k \in 1..Len(exp) : ElementIs(walk', new[Len(old) + k], exp[k])
            /\ \A b \in 1..Len(walk.blocks) :
                  b # PoppedBlock =>
                      walk'.blocks[b].elements = walk.blocks[b].elements

\* C29: in pass 2 the element list of a scope follows the order of its body:
\* of two statements of the body, every element the earlier one produces
\* (assignment record, call record or child scope) comes before every
\* element the later one produces.
ElementsInBodyOrder == [][ElementsStep]_vars

\* pass 2 has walked a file of two statements that produce three elements
\* or more between them, and the file scope holds them
ElementsInBodyOrderWitness ==
    /\ wpc = "walked"
    /\ wpass = TypePass
    /\ Len(WalkBody) = 2
    /\ StmtElements(WalkBody[1]) # <<>>
    /\ Len(StmtElements(WalkBody[2])) >= 2
    /\ StmtElements(WalkBody[1])[1].kind # StmtElements(WalkBody[2])[1].kind
    /\ Len(walk.blocks[1].elements) = Len(BodyElements(WalkBody))
    /\ \A k \in 1..Len(BodyElements(WalkBody)) :
          ElementIs(walk, walk.blocks[1].elements[k], BodyElements(WalkBody)[k])

\* ------------------------------------------------ claims on the alias table
\* the proper suffixes of identity n that start right after a `/` of n
PathSuffixes(n) ==
    { SubSeq(n, i + 1, Len(n)) : i \in { j \in 1..Len(n) : n[j] = "/" } }

\* the identities the alias table holds under key s
AliasesOf(s) ==
    IF s \in DOMAIN fileAliases THEN Range(fileAliases[s]) ELSE {}

\* C30: when the first run of a new Analyzer has read its files, the alias
\* table holds identity n under key s exactly when n is the identity of a
\* file that readFile returned and s is a proper suffix of n that starts
\* right after a `/` of n; an identity without `/` is under no key.
AliasTableExact ==
    (DiscoveryDone /\ run = 1) =>
        /\ \A s \in DOMAIN fileAliases : \A n \in AliasesOf(s) :
              n \in SoundIdentities /\ HasPathSuffix(n, s)
        /\ \A n \in SoundIdentities : \A s \in PathSuffixes(n) :
              n \in AliasesOf(s)
        /\ \A n \in SoundIdentities :
              IndexOfSlash(n) = 0 =>
                  \A s \in DOMAIN fileAliases : n \notin AliasesOf(s)

\* the first run has read a file with a `/` in its identity, a file without
\* one, and a file in a directory that readFile gave up on: the table holds
\* the first, and neither of the others
AliasTableExactWitness ==
    /\ DiscoveryDone
    /\ run = 1
    /\ \E i, j, k \in Entries :
          /\ ~Fails(disk[i])
          /\ PathSuffixes(EntryId(disk[i])) # {}
          /\ \A s \in PathSuffixes(EntryId(disk[i])) :
                EntryId(disk[i]) \in AliasesOf(s)
          /\ ~Fails(disk[j])
          /\ IndexOfSlash(EntryId(disk[j])) = 0
          /\ Fails(disk[k])
          /\ PathSuffixes(EntryId(disk[k])) # {}
          /\ EntryId(disk[k]) \notin SoundIdentities
          /\ \A s \in DOMAIN fileAliases : EntryId(disk[k]) \notin AliasesOf(s)

====
